---- MODULE Spec2Model ----
(***************************************************************************)
(* A model of agentctx's memory core: the observation journal and its      *)
(* parser (memory/observation_log.py), the sanitizer                       *)
(* (security/sanitizer.py), the audit log (security/audit.py), the         *)
(* Observer and the Reflector (memory/observer.py, memory/reflector.py)    *)
(* and the ContextManager that drives them (context_manager.py).           *)
(*                                                                         *)
(* Text is modelled character by character: a Python str is a sequence of  *)
(* one-character values.  ASCII characters stand for themselves; a         *)
(* character outside ASCII is written by its code point ("u1F7E2" is the   *)
(* green circle U+1F7E2).  Regular expressions are evaluated by a small    *)
(* backtracking matcher with Python's priorities (greedy, lazy, ordered    *)
(* alternatives), so that parsing, serialising and redacting are computed  *)
(* the way the code computes them.                                         *)
(***************************************************************************)
EXTENDS Integers, Sequences, FiniteSets, TLC

(***************************************************************************)
(* Characters                                                              *)
(***************************************************************************)

\* The three priority glyphs as context_manager.py and observer.py write them.
GlyphRed == "u1F534"
GlyphYellow == "u1F7E1"
GlyphGreen == "u1F7E2"

\* ("🔴", "🟡", "🟢") in the order the code tries them.
Markers == <<GlyphRed, GlyphYellow, GlyphGreen>>

Ellipsis == "u2026"

Whitespace == {" ", "\n", "\t"}

Digits == {"0", "1", "2", "3", "4", "5", "6", "7", "8", "9"}

LowerLetters ==
  {"a", "b", "c", "d", "e", "f", "g", "h", "i", "j", "k", "l", "m",
   "n", "o", "p", "q", "r", "s", "t", "u", "v", "w", "x", "y", "z"}

UpperLetters ==
  {"A", "B", "C", "D", "E", "F", "G", "H", "I", "J", "K", "L", "M",
   "N", "O", "P", "Q", "R", "S", "T", "U", "V", "W", "X", "Y", "Z"}

\* The characters of observation_log.py's header class as the file spells it:
\* the file holds the glyphs' UTF-8 bytes re-read as cp1252, so the class
\* [ðŸ”´ðŸŸ¡ðŸŸ¢] is the six characters U+00F0 U+0178 U+201D U+00B4 U+00A1 U+00A2.
HeaderClassChars == {"u00F0", "u0178", "u201D", "u00B4", "u00A1", "u00A2"}

Punctuation == {":", "-", "_", "[", "]", "<", ">", "/", "|", "#", ".", ","}

\* \w of a str pattern: letters, digits and the underscore (U+00F0 and U+0178
\* are letters).
WordChars == LowerLetters \cup UpperLetters \cup Digits \cup {"_", "u00F0", "u0178"}

AllChars ==
  Whitespace \cup Digits \cup LowerLetters \cup UpperLetters \cup Punctuation
    \cup {GlyphRed, GlyphYellow, GlyphGreen, Ellipsis} \cup HeaderClassChars

\* Bytes of one character in UTF-8.
Utf8Len(c) ==
  IF c \in {GlyphRed, GlyphYellow, GlyphGreen} THEN 4
  ELSE IF c \in {Ellipsis, "u201D"} THEN 3
  ELSE IF c \in HeaderClassChars THEN 2
  ELSE 1

UpperOf ==
  [c \in LowerLetters |->
     CASE c = "a" -> "A" [] c = "b" -> "B" [] c = "c" -> "C" [] c = "d" -> "D"
       [] c = "e" -> "E" [] c = "f" -> "F" [] c = "g" -> "G" [] c = "h" -> "H"
       [] c = "i" -> "I" [] c = "j" -> "J" [] c = "k" -> "K" [] c = "l" -> "L"
       [] c = "m" -> "M" [] c = "n" -> "N" [] c = "o" -> "O" [] c = "p" -> "P"
       [] c = "q" -> "Q" [] c = "r" -> "R" [] c = "s" -> "S" [] c = "t" -> "T"
       [] c = "u" -> "U" [] c = "v" -> "V" [] c = "w" -> "W" [] c = "x" -> "X"
       [] c = "y" -> "Y" [] c = "z" -> "Z"]

(***************************************************************************)
(* str methods                                                             *)
(***************************************************************************)

Min(a, b) == IF a < b THEN a ELSE b

Max(a, b) == IF a > b THEN a ELSE b

\* s[i:j] with 0-based offsets, as a Python slice (clamped).
Slice(s, i, j) ==
  LET lo == Min(Max(i, 0), Len(s))
      hi == Min(Max(j, lo), Len(s))
  IN SubSeq(s, lo + 1, hi)

\* The least element of a non-empty set of integers.
MinOf(S) == CHOOSE x \in S : \A y \in S : x <= y

RECURSIVE FirstWhere(_, _, _)
\* The least j of lo..hi with P(j), or -1: a left-to-right scan, halved so
\* that its depth stays logarithmic.
FirstWhere(P(_), lo, hi) ==
  IF lo > hi THEN -1
  ELSE IF lo = hi THEN (IF P(lo) THEN lo ELSE -1)
  ELSE LET mid == (lo + hi) \div 2
           left == FirstWhere(P, lo, mid)
       IN IF left >= 0 THEN left ELSE FirstWhere(P, mid + 1, hi)

\* Offset of the first character of s, from offset i on, that is not in set
\* (Len(s) when there is none).
CountLeading(s, set, i) ==
  CHOOSE j \in i..Len(s) :
    /\ j = Len(s) \/ s[j + 1] \notin set
    /\ \A k \in (i + 1)..j : s[k] \in set

\* Offset of the end of s[:j] once its trailing characters in set are dropped.
CountTrailing(s, set, j) ==
  CHOOSE e \in 0..j :
    /\ e = 0 \/ s[e] \notin set
    /\ \A k \in (e + 1)..j : s[k] \in set

\* str.lstrip(chars)
LStripChars(s, set) == Slice(s, CountLeading(s, set, 0), Len(s))

\* str.rstrip()
RStrip(s) == Slice(s, 0, CountTrailing(s, Whitespace, Len(s)))

\* str.strip()
Strip(s) == RStrip(LStripChars(s, Whitespace))

\* str.startswith(prefix)
StartsWith(s, prefix) ==
  /\ Len(prefix) <= Len(s)
  /\ \A k \in 1..Len(prefix) : s[k] = prefix[k]

\* str.find(c, i) for one character: its offset, or -1.
IndexOf(s, c, i) ==
  LET hits == {j \in i..(Len(s) - 1) : s[j + 1] = c}
  IN IF hits = {} THEN -1 ELSE MinOf(hits)

RECURSIVE SplitLinesFrom(_, _)
SplitLinesFrom(s, i) ==
  LET j == IndexOf(s, "\n", i)
  IN IF i >= Len(s) THEN <<>>
     ELSE IF j < 0 THEN <<Slice(s, i, Len(s))>>
     ELSE <<Slice(s, i, j)>> \o SplitLinesFrom(s, j + 1)

\* str.splitlines(): no empty last line after a final line break.
SplitLines(s) == SplitLinesFrom(s, 0)

RECURSIVE Join(_, _)
\* sep.join(parts)
Join(sep, parts) ==
  IF parts = <<>> THEN <<>>
  ELSE IF Len(parts) = 1 THEN parts[1]
  ELSE parts[1] \o sep \o Join(sep, Tail(parts))

(***************************************************************************)
(* The regular expression matcher (Python's re, backtracking).             *)
(* A pattern is a record: [k |-> "chr", set |-> S] one character of S;     *)
(* [k |-> "word", sets |-> <<S1, ..., Sn>>] n characters, the i-th of Si   *)
(* (a literal word); [k |-> "seq", rs |-> <<...>>]; [k |-> "alt", rs |->   *)
(* <<...>>]; [k |-> "rep", r |-> p, min |-> m, max |-> n, lazy |-> b]      *)
(* (max -1: no limit); [k |-> "eos"] the anchor $.                         *)
(***************************************************************************)

Chr(set) == [k |-> "chr", set |-> set]

Lit(c) == Chr({c})

\* What one pattern character matches under re.IGNORECASE: both cases of a letter.
CaseSet(c) ==
  IF c \in LowerLetters THEN {c, UpperOf[c]}
  ELSE IF c \in UpperLetters THEN {c} \cup {l \in LowerLetters : UpperOf[l] = c}
  ELSE {c}

LitI(c) == Chr(CaseSet(c))

RECURSIVE CharSets(_, _)
CharSets(w, ic) ==
  IF w = <<>> THEN <<>>
  ELSE <<IF ic THEN CaseSet(Head(w)) ELSE {Head(w)}>> \o CharSets(Tail(w), ic)

\* A literal word, case-sensitive or (WordI) under re.IGNORECASE.
Word(w) == [k |-> "word", sets |-> CharSets(w, FALSE)]

WordI(w) == [k |-> "word", sets |-> CharSets(w, TRUE)]

SeqOf(rs) == [k |-> "seq", rs |-> rs]

AltOf(rs) == [k |-> "alt", rs |-> rs]

Rep(r, min, max, lazy) == [k |-> "rep", r |-> r, min |-> min, max |-> max, lazy |-> lazy]

Opt(r) == Rep(r, 0, 1, FALSE)

Plus(r) == Rep(r, 1, -1, FALSE)

Star(r) == Rep(r, 0, -1, FALSE)

Eos == [k |-> "eos"]

RECURSIVE MatchEnds(_, _, _)
RECURSIVE MatchEach(_, _, _, _, _)
RECURSIVE MatchSeq(_, _, _, _)
RECURSIVE MatchAlt(_, _, _, _)
RECURSIVE MatchRep(_, _, _, _, _, _)
RECURSIVE MatchRepMore(_, _, _, _, _, _, _)

\* A repetition of one character class: the run of such characters from
\* offset i, longest first (greedy) or shortest first (lazy).
MatchRun(set, min, max, lazy, s, i) ==
  LET run == CountLeading(s, set, i) - i
      cnt == IF max < 0 THEN run ELSE Min(run, max)
      n == cnt - min + 1
  IN IF n <= 0 THEN <<>>
     ELSE SubSeq([k \in 1..n |-> IF lazy THEN i + min + k - 1 ELSE i + cnt - k + 1], 1, n)

\* The offsets at which a match of r that starts at offset i can end, in the
\* order in which the backtracking matcher tries them.
MatchEnds(r, s, i) ==
  CASE r.k = "chr" -> IF i < Len(s) /\ s[i + 1] \in r.set THEN <<i + 1>> ELSE <<>>
    [] r.k = "word" ->
         IF /\ i + Len(r.sets) <= Len(s)
            /\ \A n \in 1..Len(r.sets) : s[i + n] \in r.sets[n]
           THEN <<i + Len(r.sets)>> ELSE <<>>
    [] r.k = "seq" -> MatchSeq(r.rs, 1, s, <<i>>)
    [] r.k = "alt" -> MatchAlt(r.rs, 1, s, i)
    [] r.k = "rep" ->
         IF r.r.k = "chr" THEN MatchRun(r.r.set, r.min, r.max, r.lazy, s, i)
         ELSE MatchRep(r.r, r.min, r.max, r.lazy, s, i)
    [] r.k = "eos" ->
         IF i = Len(s) \/ (i = Len(s) - 1 /\ s[Len(s)] = "\n") THEN <<i>> ELSE <<>>

\* The ends of r from each offset starts[lo..hi], in order.
MatchEach(r, s, starts, lo, hi) ==
  IF lo > hi THEN <<>>
  ELSE IF lo = hi THEN MatchEnds(r, s, starts[lo])
  ELSE LET mid == (lo + hi) \div 2
       IN MatchEach(r, s, starts, lo, mid) \o MatchEach(r, s, starts, mid + 1, hi)

\* The parts rs[n..] matched one after another from each offset of starts.
MatchSeq(rs, n, s, starts) ==
  IF starts = <<>> \/ n > Len(rs) THEN starts
  ELSE MatchSeq(rs, n + 1, s, MatchEach(rs[n], s, starts, 1, Len(starts)))

MatchAlt(rs, n, s, i) ==
  IF n > Len(rs) THEN <<>>
  ELSE MatchEnds(rs[n], s, i) \o MatchAlt(rs, n + 1, s, i)

\* One more repetition from each of ends (an empty repetition is not retried).
MatchRepMore(r, min, max, lazy, s, i, ends) ==
  IF ends = <<>> THEN <<>>
  ELSE (IF Head(ends) > i
          THEN MatchRep(r, Max(min - 1, 0), IF max < 0 THEN max ELSE max - 1,
                        lazy, s, Head(ends))
          ELSE <<>>)
       \o MatchRepMore(r, min, max, lazy, s, i, Tail(ends))

MatchRep(r, min, max, lazy, s, i) ==
  LET stop == IF min = 0 THEN <<i>> ELSE <<>>
      more == IF max = 0 THEN <<>>
              ELSE MatchRepMore(r, min, max, lazy, s, i, MatchEnds(r, s, i))
  IN IF lazy THEN stop \o more ELSE more \o stop

\* The first of the ends the matcher tries, or -1 when there is none.
FirstEnd(ends) == IF ends = <<>> THEN -1 ELSE Head(ends)

\* pattern.match(s, i) of the pattern r: the end of the match at offset i, or -1.
MatchAt(r, s, i) == FirstEnd(MatchEnds(r, s, i))

RECURSIVE Nullable(_)
\* Whether r matches the empty string.
Nullable(r) ==
  CASE r.k = "chr" -> FALSE
    [] r.k = "word" -> r.sets = <<>>
    [] r.k = "seq" -> \A n \in 1..Len(r.rs) : Nullable(r.rs[n])
    [] r.k = "alt" -> \E n \in 1..Len(r.rs) : Nullable(r.rs[n])
    [] r.k = "rep" -> r.min = 0 \/ Nullable(r.r)
    [] r.k = "eos" -> TRUE

RECURSIVE FirstSet(_)
\* The characters a non-empty match of r can start with.
FirstSet(r) ==
  CASE r.k = "chr" -> r.set
    [] r.k = "word" -> IF r.sets = <<>> THEN {} ELSE r.sets[1]
    [] r.k = "seq" ->
         UNION {FirstSet(r.rs[n]) :
                  n \in {m \in 1..Len(r.rs) : \A k \in 1..(m - 1) : Nullable(r.rs[k])}}
    [] r.k = "alt" -> UNION {FirstSet(r.rs[n]) : n \in 1..Len(r.rs)}
    [] r.k = "rep" -> IF r.max = 0 THEN {} ELSE FirstSet(r.r)
    [] r.k = "eos" -> {}

\* re.compile(pattern): the pattern with what the search uses to skip the
\* offsets at which no match can start.
Compile(r) == [re |-> r, first |-> FirstSet(r), nullable |-> Nullable(r)]

\* The offsets from i on at which a match of c can start, going by its first
\* character.
Candidates(c, s, i) ==
  {j \in i..Len(s) : c.nullable \/ (j < Len(s) /\ s[j + 1] \in c.first)}

\* The match that starts at offset j (-1: there is none) as <<start, end>>.
MatchSpan(c, s, j) == IF j < 0 THEN <<-1, -1>> ELSE <<j, MatchAt(c.re, s, j)>>

\* The leftmost offset of cand at which c matches, or -1.
LeftmostMatch(c, s, cand) ==
  IF cand = {} THEN -1
  ELSE FirstWhere(LAMBDA n : n \in cand /\ MatchAt(c.re, s, n) >= 0, MinOf(cand), Len(s))

\* pattern.search(s, i) of a compiled pattern: <<start, end>> of the leftmost
\* match, or <<-1, -1>>.
SearchFrom(c, s, i) == MatchSpan(c, s, LeftmostMatch(c, s, Candidates(c, s, i)))

\* pattern.search(s) is not None
HasMatch(c, s) == SearchFrom(c, s, 0)[1] >= 0

RECURSIVE SubnFrom(_, _, _, _)
RECURSIVE SubnAt(_, _, _, _, _)

\* The replacement put before what subn makes of the rest: one more substitution.
SubnJoin(head, rest) == <<head \o rest[1], rest[2] + 1>>

\* subn from offset i on, m being the leftmost match from there.
SubnAt(c, repl, s, i, m) ==
  IF m[1] < 0 \/ m[2] = m[1] THEN <<Slice(s, i, Len(s)), 0>>
  ELSE SubnJoin(Slice(s, i, m[1]) \o repl, SubnFrom(c, repl, s, m[2]))

\* pattern.subn(repl, s) from offset i on: <<new string, number of
\* substitutions>>; the patterns of this model never match the empty string.
SubnFrom(c, repl, s, i) == SubnAt(c, repl, s, i, SearchFrom(c, s, i))

\* pattern.subn(repl, s)
Subn(c, repl, s) == SubnFrom(c, repl, s, 0)

RECURSIVE SplitFrom(_, _, _)
RECURSIVE SplitAt(_, _, _, _)

\* The split from offset i on, m being the leftmost match from there.
SplitAt(c, s, i, m) ==
  IF m[1] < 0 \/ m[2] = m[1] THEN <<Slice(s, i, Len(s))>>
  ELSE <<Slice(s, i, m[1])>> \o SplitFrom(c, s, m[2])

SplitFrom(c, s, i) == SplitAt(c, s, i, SearchFrom(c, s, i))

\* re.split(pattern, s) for a pattern without groups that matches no empty string.
ReSplit(c, s) == SplitFrom(c, s, 0)

(***************************************************************************)
(* datetime.date                                                           *)
(***************************************************************************)

DigitVal ==
  [c \in Digits |->
     CASE c = "0" -> 0 [] c = "1" -> 1 [] c = "2" -> 2 [] c = "3" -> 3
       [] c = "4" -> 4 [] c = "5" -> 5 [] c = "6" -> 6 [] c = "7" -> 7
       [] c = "8" -> 8 [] c = "9" -> 9]

DigitChar == <<"1", "2", "3", "4", "5", "6", "7", "8", "9">>

Digit(n) == IF n = 0 THEN "0" ELSE DigitChar[n]

IsLeap(y) == (y % 4 = 0) /\ ((y % 100 # 0) \/ (y % 400 = 0))

DaysInMonth(y, m) ==
  IF m = 2 THEN (IF IsLeap(y) THEN 29 ELSE 28)
  ELSE IF m \in {4, 6, 9, 11} THEN 30
  ELSE 31

Date(y, m, d) == [y |-> y, m |-> m, d |-> d]

\* datetime.date's own check of year, month and day (MINYEAR 1, MAXYEAR 9999).
ValidDate(y, m, d) ==
  /\ 1 <= y /\ y <= 9999
  /\ 1 <= m /\ m <= 12
  /\ 1 <= d /\ d <= DaysInMonth(y, m)

\* str(date): date.isoformat(), "%04d-%02d-%02d".
DateStr(dt) ==
  << Digit(dt.y \div 1000), Digit((dt.y \div 100) % 10), Digit((dt.y \div 10) % 10),
     Digit(dt.y % 10), "-", Digit(dt.m \div 10), Digit(dt.m % 10), "-",
     Digit(dt.d \div 10), Digit(dt.d % 10) >>

\* date.fromisoformat on ten characters of the shape \d{4}-\d{2}-\d{2}:
\* the date, or ok = FALSE where Python raises ValueError.
FromIsoFormat(t) ==
  LET y == DigitVal[t[1]] * 1000 + DigitVal[t[2]] * 100 + DigitVal[t[3]] * 10 + DigitVal[t[4]]
      m == DigitVal[t[6]] * 10 + DigitVal[t[7]]
      d == DigitVal[t[9]] * 10 + DigitVal[t[10]]
  IN IF ValidDate(y, m, d) THEN [ok |-> TRUE, date |-> Date(y, m, d)]
     ELSE [ok |-> FALSE, date |-> Date(0, 0, 0)]

RECURSIVE DaysBeforeMonth(_, _)
\* Days of year y before the first of month m.
DaysBeforeMonth(y, m) ==
  IF m = 1 THEN 0 ELSE DaysBeforeMonth(y, m - 1) + DaysInMonth(y, m - 1)

\* date.toordinal(): days since 0001-01-01, that day being 1.
toordinal(dt) ==
  (dt.y - 1) * 365 + (dt.y - 1) \div 4 - (dt.y - 1) \div 100 + (dt.y - 1) \div 400
    + DaysBeforeMonth(dt.y, dt.m) + dt.d

RECURSIVE NatStr(_)
\* str(n) of a natural number: its decimal digits.
NatStr(n) == IF n < 10 THEN <<Digit(n)>> ELSE NatStr(n \div 10) \o <<Digit(n % 10)>>

\* str(n) of an integer.
IntStr(n) == IF n < 0 THEN <<"-">> \o NatStr(0 - n) ELSE NatStr(n)

(***************************************************************************)
(* memory/observation_log.py: ObservationEntry                             *)
(***************************************************************************)

ObservationEntry(priority, observed_on, event_date, text, external) ==
  [priority |-> priority, observed_on |-> observed_on, event_date |-> event_date,
   text |-> text, external |-> external]

s_observed_on == <<" ", "o", "b", "s", "e", "r", "v", "e", "d", "_", "o", "n", ":">>

s_event_date == <<" ", "e", "v", "e", "n", "t", "_", "d", "a", "t", "e", ":">>

s_ext == <<" ", "[", "E", "X", "T", "]">>

None == "None"

s_relative == <<" ", "r", "e", "l", "a", "t", "i", "v", "e", ":">>

s_today == <<"t", "o", "d", "a", "y">>

s_1_day_ago == <<"1", "_", "d", "a", "y", "_", "a", "g", "o">>

s_days_ago == <<"_", "d", "a", "y", "s", "_", "a", "g", "o">>

\* The argument today left out (None): no calendar date.
NoDate == Date(0, 0, 0)

\* `today or date.today()`, now being date.today()
TodayOr(today, now) == IF today = NoDate THEN now ELSE today

\* A faulty relative_lag: one day is spelled like any other number of days.
LagOfUniform(delta) ==
  IF delta = 0 THEN s_today ELSE IntStr(delta) \o s_days_ago

\* The three returns of relative_lag for delta = (today - event_date).days
LagOf(delta) ==
  IF delta = 0 THEN s_today
  ELSE IF delta = 1 THEN s_1_day_ago
  ELSE IntStr(delta) \o s_days_ago

\* ObservationEntry.relative_lag(today)
relative_lag(e, today, now) ==
  LagOf(toordinal(TodayOr(today, now)) - toordinal(e.event_date))

\* ObservationEntry.render(today): the form put into the context window.
render(e, today, now) ==
  <<e.priority>> \o s_observed_on \o DateStr(e.observed_on)
    \o s_event_date \o DateStr(e.event_date)
    \o s_relative \o relative_lag(e, today, now)
    \o (IF e.external THEN s_ext ELSE <<>>)
    \o <<"\n">> \o e.text

\* ObservationEntry.serialize: the storage form, header LF text.
serialize(e) ==
  <<e.priority>> \o s_observed_on \o DateStr(e.observed_on)
    \o s_event_date \o DateStr(e.event_date)
    \o (IF e.external THEN s_ext ELSE <<>>)
    \o <<"\n">> \o e.text

(***************************************************************************)
(* memory/observation_log.py: _HEADER_RE and ObservationLog._parse         *)
(***************************************************************************)

ReSpaces == Plus(Chr(Whitespace))

ReDate ==
  SeqOf(<<Rep(Chr(Digits), 4, 4, FALSE), Lit("-"), Rep(Chr(Digits), 2, 2, FALSE),
          Lit("-"), Rep(Chr(Digits), 2, 2, FALSE)>>)

\* The seven parts of _HEADER_RE, in order.  The pattern is used with match():
\* anchored at the start of the header line, open at its end.
HeaderParts ==
  << Chr(HeaderClassChars),
     SeqOf(<<ReSpaces, Word(Tail(s_observed_on))>>),
     ReDate,
     SeqOf(<<ReSpaces, Word(Tail(s_event_date))>>),
     ReDate,
     Opt(SeqOf(<<ReSpaces, Word(<<"r", "e", "l", "a", "t", "i", "v", "e", ":">>),
                 Plus(Chr(AllChars \ Whitespace))>>)),
     Opt(SeqOf(<<ReSpaces, Word(Tail(s_ext))>>)) >>

_HEADER_RE == Compile(SeqOf(HeaderParts))

\* The groups 1 to 4 of a match of _HEADER_RE that ends at whole (-1: no
\* match), e2, e4 and e6 being the ends of its first 2, 4 and 6 parts.
HeaderGroups(header, whole, e2, e4, e6) ==
  IF whole < 0 THEN [matched |-> FALSE]
  ELSE [matched |-> TRUE,
        g1 |-> header[1],
        g2 |-> Slice(header, e2, e2 + 10),
        g3 |-> Slice(header, e4, e4 + 10),
        g4 |-> whole > e6]

\* _HEADER_RE.match(header) and its groups.  Every part before group 4 has one
\* way to match, so the groups' places are the ends of the prefixes.
HeaderMatch(header) ==
  HeaderGroups(header,
               MatchAt(_HEADER_RE.re, header, 0),
               MatchAt(SeqOf(SubSeq(HeaderParts, 1, 2)), header, 0),
               MatchAt(SeqOf(SubSeq(HeaderParts, 1, 4)), header, 0),
               MatchAt(SeqOf(SubSeq(HeaderParts, 1, 6)), header, 0))

\* re.split(r"\n{2,}", ...)
ReBlankLines == Compile(Rep(Lit("\n"), 2, -1, FALSE))

RECURSIVE ParseBlocks(_, _)

\* The entry of a block whose header matched, before the entries of the
\* blocks after it; ok = FALSE when date.fromisoformat raises ValueError.
ParseDates(m, obs, evt, text, rest) ==
  IF ~obs.ok \/ ~evt.ok \/ ~rest.ok THEN [ok |-> FALSE, entries |-> <<>>]
  ELSE [ok |-> TRUE,
        entries |-> <<ObservationEntry(m.g1, obs.date, evt.date, text, m.g4)>>
                      \o rest.entries]

\* `if not m: continue`, then the entry.
ParseEntry(m, text, rest) ==
  IF ~m.matched THEN rest
  ELSE ParseDates(m, FromIsoFormat(m.g2), FromIsoFormat(m.g3), text, rest)

\* lines = block.split("\n", 1): the header line and the stripped text.
ParseLines(block, nl, rest) ==
  ParseEntry(HeaderMatch(IF nl < 0 THEN block ELSE Slice(block, 0, nl)),
             IF nl < 0 THEN <<>> ELSE Strip(Slice(block, nl + 1, Len(block))),
             rest)

\* `if not block: continue`, then the block's lines.
ParseBlock(block, rest) ==
  IF block = <<>> THEN rest ELSE ParseLines(block, IndexOf(block, "\n", 0), rest)

\* The loop of _parse over the blocks from the n-th on.
ParseBlocks(blocks, n) ==
  IF n > Len(blocks) THEN [ok |-> TRUE, entries |-> <<>>]
  ELSE ParseBlock(Strip(blocks[n]), ParseBlocks(blocks, n + 1))

\* ObservationLog._parse(raw)
_parse(raw) == ParseBlocks(ReSplit(ReBlankLines, Strip(raw)), 1)

(***************************************************************************)
(* memory/observation_log.py: ObservationLog's writes and metrics, on the  *)
(* file's content (read_raw() of a missing file is the empty string).      *)
(***************************************************************************)

\* ObservationLog.append(entry): the file's content afterwards.
LogAppend(raw, entry) ==
  LET separator == IF Strip(raw) # <<>> THEN <<"\n", "\n">> ELSE <<>>
  IN raw \o separator \o serialize(entry) \o <<"\n">>

\* What append writes at the end of the file when read_raw() gave raw.
AppendedText(raw, entry) ==
  (IF Strip(raw) # <<>> THEN <<"\n", "\n">> ELSE <<>>) \o serialize(entry) \o <<"\n">>

\* ObservationLog.overwrite(entries): the file's content afterwards.
LogOverwrite(entries) ==
  IF entries # <<>>
    THEN Join(<<"\n", "\n">>, [i \in 1..Len(entries) |-> serialize(entries[i])]) \o <<"\n">>
    ELSE <<>>

\* ObservationLog.token_count_approx()
token_count_approx(raw) == Len(raw) \div 4

(***************************************************************************)
(* security/sanitizer.py                                                   *)
(***************************************************************************)

ReAny == Chr(AllChars)

ReWordChar == Chr(WordChars)

ReOptSpaces == Star(Chr(Whitespace))

\* instructions?, prompts?, directions?, constraints? under re.IGNORECASE
ReInstructions == SeqOf(<<WordI(<<"i", "n", "s", "t", "r", "u", "c", "t", "i", "o", "n">>), Opt(LitI("s"))>>)

ReArticle == AltOf(<<WordI(<<"a">>), WordI(<<"a", "n">>), WordI(<<"t", "h", "e">>)>>)

\* (?:ignore|disregard|forget|override)\s+(?:all\s+)?(?:previous|prior|above)\s+
\* (?:instructions?|context|prompts?|directions?|constraints?)
Rule1 ==
  SeqOf(<<AltOf(<<WordI(<<"i", "g", "n", "o", "r", "e">>), WordI(<<"d", "i", "s", "r", "e", "g", "a", "r", "d">>),
                  WordI(<<"f", "o", "r", "g", "e", "t">>), WordI(<<"o", "v", "e", "r", "r", "i", "d", "e">>)>>),
          ReSpaces,
          Opt(SeqOf(<<WordI(<<"a", "l", "l">>), ReSpaces>>)),
          AltOf(<<WordI(<<"p", "r", "e", "v", "i", "o", "u", "s">>), WordI(<<"p", "r", "i", "o", "r">>), WordI(<<"a", "b", "o", "v", "e">>)>>),
          ReSpaces,
          AltOf(<<ReInstructions,
                  WordI(<<"c", "o", "n", "t", "e", "x", "t">>),
                  SeqOf(<<WordI(<<"p", "r", "o", "m", "p", "t">>), Opt(LitI("s"))>>),
                  SeqOf(<<WordI(<<"d", "i", "r", "e", "c", "t", "i", "o", "n">>), Opt(LitI("s"))>>),
                  SeqOf(<<WordI(<<"c", "o", "n", "s", "t", "r", "a", "i", "n", "t">>), Opt(LitI("s"))>>)>>)>>)

\* you\s+are\s+now\s+(?:a|an|the)\s+\w+
Rule2 ==
  SeqOf(<<WordI(<<"y", "o", "u">>), ReSpaces, WordI(<<"a", "r", "e">>), ReSpaces, WordI(<<"n", "o", "w">>), ReSpaces,
          ReArticle, ReSpaces, Plus(ReWordChar)>>)

\* (?:new|updat\w*|revis\w*|secret|hidden)\s+instructions?\s*:
Rule3 ==
  SeqOf(<<AltOf(<<WordI(<<"n", "e", "w">>),
                  SeqOf(<<WordI(<<"u", "p", "d", "a", "t">>), Star(ReWordChar)>>),
                  SeqOf(<<WordI(<<"r", "e", "v", "i", "s">>), Star(ReWordChar)>>),
                  WordI(<<"s", "e", "c", "r", "e", "t">>), WordI(<<"h", "i", "d", "d", "e", "n">>)>>),
          ReSpaces, ReInstructions, ReOptSpaces, Lit(":")>>)

\* forget\s+(?:everything|all|your|what|prior\w*)
Rule4 ==
  SeqOf(<<WordI(<<"f", "o", "r", "g", "e", "t">>), ReSpaces,
          AltOf(<<WordI(<<"e", "v", "e", "r", "y", "t", "h", "i", "n", "g">>), WordI(<<"a", "l", "l">>), WordI(<<"y", "o", "u", "r">>), WordI(<<"w", "h", "a", "t">>),
                  SeqOf(<<WordI(<<"p", "r", "i", "o", "r">>), Star(ReWordChar)>>)>>)>>)

\* (?:act|behave|pretend|roleplay)\s+as\s+(?:if\s+)?(?:you\s+(?:are|were)\s+)?
\* (?:a|an|the)\s+\w+
Rule5 ==
  SeqOf(<<AltOf(<<WordI(<<"a", "c", "t">>), WordI(<<"b", "e", "h", "a", "v", "e">>), WordI(<<"p", "r", "e", "t", "e", "n", "d">>), WordI(<<"r", "o", "l", "e", "p", "l", "a", "y">>)>>),
          ReSpaces, WordI(<<"a", "s">>), ReSpaces,
          Opt(SeqOf(<<WordI(<<"i", "f">>), ReSpaces>>)),
          Opt(SeqOf(<<WordI(<<"y", "o", "u">>), ReSpaces, AltOf(<<WordI(<<"a", "r", "e">>), WordI(<<"w", "e", "r", "e">>)>>), ReSpaces>>)),
          ReArticle, ReSpaces, Plus(ReWordChar)>>)

\* #{1,3}\s*(?:system|instructions?|prompt)\s*:
Rule6 ==
  SeqOf(<<Rep(Lit("#"), 1, 3, FALSE), ReOptSpaces,
          AltOf(<<WordI(<<"s", "y", "s", "t", "e", "m">>), ReInstructions, WordI(<<"p", "r", "o", "m", "p", "t">>)>>),
          ReOptSpaces, Lit(":")>>)

\* <\s*system\s*>[\s\S]*?<\s*/\s*system\s*>
Rule7 ==
  SeqOf(<<Lit("<"), ReOptSpaces, WordI(<<"s", "y", "s", "t", "e", "m">>), ReOptSpaces, Lit(">"),
          Rep(ReAny, 0, -1, TRUE),
          Lit("<"), ReOptSpaces, Lit("/"), ReOptSpaces, WordI(<<"s", "y", "s", "t", "e", "m">>), ReOptSpaces, Lit(">")>>)

\* <\s*instructions?\s*>[\s\S]*?<\s*/\s*instructions?\s*>
Rule8 ==
  SeqOf(<<Lit("<"), ReOptSpaces, ReInstructions, ReOptSpaces, Lit(">"),
          Rep(ReAny, 0, -1, TRUE),
          Lit("<"), ReOptSpaces, Lit("/"), ReOptSpaces, ReInstructions, ReOptSpaces, Lit(">")>>)

\* \[INST\][\s\S]*?\[/INST\] (case-sensitive)
Rule9 ==
  SeqOf(<<Word(<<"[", "I", "N", "S", "T", "]">>), Rep(ReAny, 0, -1, TRUE), Word(<<"[", "/", "I", "N", "S", "T", "]">>)>>)

\* <\|im_start\|>[\s\S]*?(?:<\|im_end\|>|$) (case-sensitive)
Rule10 ==
  SeqOf(<<Word(<<"<", "|", "i", "m", "_", "s", "t", "a", "r", "t", "|", ">">>), Rep(ReAny, 0, -1, TRUE),
          AltOf(<<Word(<<"<", "|", "i", "m", "_", "e", "n", "d", "|", ">">>), Eos>>)>>)

\* \|\s*im_start\s*\| (case-sensitive)
Rule11 ==
  SeqOf(<<Lit("|"), ReOptSpaces, Word(<<"i", "m", "_", "s", "t", "a", "r", "t">>), ReOptSpaces, Lit("|")>>)

\* _INJECTION_PATTERNS, compiled, in the order of the list.
_COMPILED ==
  << Compile(Rule1), Compile(Rule2), Compile(Rule3), Compile(Rule4), Compile(Rule5),
     Compile(Rule6), Compile(Rule7), Compile(Rule8), Compile(Rule9), Compile(Rule10),
     Compile(Rule11) >>

s_redacted == <<"[", "R", "E", "D", "A", "C", "T", "E", "D", "]">>

s_truncated == <<" ", "u2026", " ", "[", "T", "R", "U", "N", "C", "A", "T", "E", "D", "]">>

RECURSIVE StripRules(_, _, _)
RECURSIVE StripRulesButLast(_, _, _)

\* One turn of the loop of _strip_injections: r is what subn made of content
\* with the n-th rule.
StripRule(r, content, count, n) ==
  IF r[2] = 0 THEN StripRules(content, count, n + 1)
  ELSE StripRules(r[1], count + r[2], n + 1)

\* A faulty loop: it stops before the last pattern of the list.
StripRulesButLast(content, count, n) ==
  IF n >= Len(_COMPILED) THEN <<content, count>>
  ELSE StripRule(Subn(_COMPILED[n], s_redacted, content), content, count, n)

\* The loop of _strip_injections from the n-th rule on: <<content, count>>.
StripRules(content, count, n) ==
  IF n > Len(_COMPILED) THEN <<content, count>>
  ELSE StripRule(Subn(_COMPILED[n], s_redacted, content), content, count, n)

\* return content.strip(), count
StripResult(r) == <<Strip(r[1]), r[2]>>

\* Sanitizer._strip_injections(content): <<stripped content, count>>
_strip_injections(content) == StripResult(StripRules(content, 0, 1))

\* A faulty budget test: a text of exactly budget characters is cut as well.
EnforceBudgetInclusive(r, budget) ==
  IF Len(r[1]) >= budget
    THEN [text |-> RStrip(Slice(r[1], 0, budget)) \o s_truncated,
          was_truncated |-> TRUE, injection_count |-> r[2]]
    ELSE [text |-> r[1], was_truncated |-> FALSE, injection_count |-> r[2]]

\* The entry budget enforced on r = <<cleaned, count>>.
EnforceBudget(r, budget) ==
  IF Len(r[1]) > budget
    THEN [text |-> RStrip(Slice(r[1], 0, budget)) \o s_truncated,
          was_truncated |-> TRUE, injection_count |-> r[2]]
    ELSE [text |-> r[1], was_truncated |-> FALSE, injection_count |-> r[2]]

\* Sanitizer.sanitize_for_observation(text, max_chars)
sanitize_for_observation(text, budget) == EnforceBudget(_strip_injections(text), budget)

(***************************************************************************)
(* security/audit.py, on the list of entries audit.jsonl holds.  The        *)
(* timestamp of an entry is left out: nothing reads it.                    *)
(***************************************************************************)

\* AuditLog.hash_content: the SHA-256 digest of the content's UTF-8 bytes, as
\* an ideal digest: the digests of two contents are equal only when the
\* contents are.
hash_content(content) == [sha256_of |-> content]

AuditEntry(source, char_delta, sha256) ==
  [source |-> source, char_delta |-> char_delta, sha256 |-> sha256]

\* A faulty AuditLog.append: it records the digest of the content before the write.
AuditAppendOfPrevious(entries, source, previous_content, new_content) ==
  Append(entries,
         AuditEntry(source, Len(new_content) - Len(previous_content),
                    hash_content(previous_content)))

\* A faulty AuditLog.append: the new entry is put before the entries recorded.
AuditAppendFirst(entries, source, previous_content, new_content) ==
  <<AuditEntry(source, Len(new_content) - Len(previous_content),
               hash_content(new_content))>> \o entries

\* A faulty AuditLog.append: char_delta is the length of the new content.
AuditAppendLength(entries, source, previous_content, new_content) ==
  Append(entries, AuditEntry(source, Len(new_content), hash_content(new_content)))

\* AuditLog.append(source, previous_content, new_content): the entries afterwards.
AuditAppend(entries, source, previous_content, new_content) ==
  Append(entries,
         AuditEntry(source, Len(new_content) - Len(previous_content),
                    hash_content(new_content)))

\* AuditLog.last_entry() of a log that has entries (None when it has none).
last_entry(entries) == entries[Len(entries)]

\* AuditLog.last_hash() of a log that has entries (None when it has none).
last_hash(entries) == last_entry(entries).sha256

\* A faulty verify: any recorded digest is accepted, not only the last.
verifyAnyEntry(entries, current_content) ==
  \/ entries = <<>>
  \/ \E n \in 1..Len(entries) : hash_content(current_content) = entries[n].sha256

\* AuditLog.verify(current_content): True when no audit history exists.
verify(entries, current_content) ==
  IF entries = <<>> THEN TRUE
  ELSE hash_content(current_content) = last_hash(entries)

(***************************************************************************)
(* memory/observer.py and the marker handling it shares with               *)
(* ContextManager.observe                                                  *)
(***************************************************************************)

\* Per-entry character budget of the Sanitizer the ContextManager builds.  The
\* code's DEFAULT_MAX_ENTRY_CHARS is 2000; the model scales it down so that
\* texts over the budget stay small.
MaxEntryChars == 60

\* The loop `for marker in ("🔴", "🟡", "🟢"): if s.startswith(marker)`: the
\* first marker s starts with, or None.
LeadingMarker(s) ==
  IF s # <<>> /\ \E n \in 1..Len(Markers) : s[1] = Markers[n]
    THEN s[1] ELSE None

\* s[len(marker):].lstrip(" :-").strip()
AfterMarker(s) == Strip(LStripChars(Tail(s), {" ", ":", "-"}))

\* A faulty entry construction: the submitted priority is kept whatever the
\* sanitizer reports.
EntryOfSubmitted(result, priority, today, event_date) ==
  [entry |-> ObservationEntry(priority, today, event_date, result.text, FALSE),
   submitted |-> priority,
   was_truncated |-> result.was_truncated]

\* The entry built from a submitted priority and the sanitizer's result.
EntryOf(result, priority, today, event_date) ==
  [entry |-> ObservationEntry(IF result.was_truncated THEN GlyphRed ELSE priority,
                              today, event_date, result.text, FALSE),
   submitted |-> priority,
   was_truncated |-> result.was_truncated]

\* The entry observe and _parse_and_write build from a submitted priority and
\* the text that follows the marker, with the sanitizer's was_truncated.
BuildEntry(priority, text, today, event_date) ==
  EntryOf(sanitize_for_observation(text, MaxEntryChars), priority, today, event_date)

RECURSIVE WriteLines(_, _, _, _, _)

\* The entry b written before what the loop makes of the lines after it.
WriteJoin(b, rest) ==
  [raw |-> rest.raw,
   entries |-> <<b.entry>> \o rest.entries,
   lines |-> <<[submitted |-> b.submitted, was_truncated |-> b.was_truncated]>>
               \o rest.lines]

\* self.observation_log.append(entry), and on to the next line.
WriteEntry(b, lines, n, raw, today, event_date) ==
  WriteJoin(b, WriteLines(lines, n + 1, LogAppend(raw, b.entry), today, event_date))

\* One stripped response line: skipped when empty or without a marker.
WriteLine(line, lines, n, raw, today, event_date) ==
  IF line = <<>> \/ LeadingMarker(line) = None
    THEN WriteLines(lines, n + 1, raw, today, event_date)
    ELSE WriteEntry(BuildEntry(LeadingMarker(line), AfterMarker(line), today, event_date),
                    lines, n, raw, today, event_date)

\* The loop of Observer._parse_and_write from the n-th response line on: the
\* journal's content, the entries appended and, for each, the priority its
\* line submitted and whether its text was truncated.
WriteLines(lines, n, raw, today, event_date) ==
  IF n > Len(lines) THEN [raw |-> raw, entries |-> <<>>, lines |-> <<>>]
  ELSE WriteLine(Strip(lines[n]), lines, n, raw, today, event_date)

\* Observer._parse_and_write(response, today, event_date)
_parse_and_write(raw, response, today, event_date) ==
  WriteLines(SplitLines(response), 1, raw, today, event_date)

\* What LLMAdapter.call does: it returns a text, or it raises.
Answer(text) == [raises |-> FALSE, text |-> text]

LLMError == [raises |-> TRUE, text |-> <<>>]

\* What compress returns once _parse_and_write has written w.
Compressed(w) ==
  [raw |-> w.raw, entries |-> w.entries, lines |-> w.lines,
   called |-> TRUE, raised |-> FALSE]

\* A faulty compress: the LLM is asked even when there is no message.
compressUnguarded(raw, messages, response, today) ==
  IF response.raises
    THEN [raw |-> raw, entries |-> <<>>, lines |-> <<>>, called |-> TRUE, raised |-> TRUE]
  ELSE Compressed(_parse_and_write(raw, response.text, today, today))

\* Observer.compress(messages) with the LLM answering response, and
\* event_date left to default to today: the journal's content afterwards, the
\* entries returned, whether the LLM was called and whether the call raised.
compress(raw, messages, response, today) ==
  IF messages = <<>>
    THEN [raw |-> raw, entries |-> <<>>, lines |-> <<>>, called |-> FALSE, raised |-> FALSE]
  ELSE IF response.raises
    THEN [raw |-> raw, entries |-> <<>>, lines |-> <<>>, called |-> TRUE, raised |-> TRUE]
  ELSE Compressed(_parse_and_write(raw, response.text, today, today))

(***************************************************************************)
(* memory/reflector.py                                                     *)
(***************************************************************************)

\* What reflect returns and leaves: the value returned, the journal's content,
\* whether the LLM was called, and whether the call or a parse raised.
Reflected(ret, raw, called, raised) ==
  [ret |-> ret, raw |-> raw, called |-> called, raised |-> raised]

\* A faulty reflect: it overwrites the journal with whatever the response
\* parses to, the safety check on an empty result left out.
ReflectParsedUnchecked(raw, parsed) ==
  IF ~parsed.ok THEN Reflected(FALSE, raw, TRUE, TRUE)
  ELSE Reflected(TRUE, LogOverwrite(parsed.entries), TRUE, FALSE)

\* reflect once the LLM's response is parsed.
ReflectParsed(raw, parsed) ==
  IF ~parsed.ok THEN Reflected(FALSE, raw, TRUE, TRUE)
  ELSE IF parsed.entries = <<>> THEN Reflected(FALSE, raw, TRUE, FALSE)
  ELSE Reflected(TRUE, LogOverwrite(parsed.entries), TRUE, FALSE)

\* reflect once the journal is parsed.
ReflectEntries(raw, original, response) ==
  IF ~original.ok THEN Reflected(FALSE, raw, FALSE, TRUE)
  ELSE IF original.entries = <<>> THEN Reflected(FALSE, raw, FALSE, FALSE)
  ELSE IF response.raises THEN Reflected(FALSE, raw, TRUE, TRUE)
  ELSE ReflectParsed(raw, _parse(response.text))

\* Reflector.reflect() with the LLM answering response.
reflect(raw, response) ==
  IF Strip(raw) = <<>> THEN Reflected(FALSE, raw, FALSE, FALSE)
  ELSE ReflectEntries(raw, _parse(raw), response)

(***************************************************************************)
(* security/anchor.py, session/context_builder.py and the two builders of  *)
(* context_manager.py, on the Anchor's intent, the journal's content and   *)
(* the session's messages                                                  *)
(***************************************************************************)

s_task_anchor == <<"#", "#", " ", "T", "a", "s", "k", " ", "A", "n", "c", "h", "o", "r", "\n", "\n">>

_BLOCK1_HEADER ==
  <<"#", "#", " ", "O", "b", "s", "e", "r", "v", "a", "t", "i", "o", "n", " ", "L", "o", "g",
    "\n", "\n">>

_BLOCK2_HEADER ==
  <<"#", "#", " ", "C", "u", "r", "r", "e", "n", "t", " ", "S", "e", "s", "s", "i", "o", "n",
    "\n", "\n">>

s_blank_line == <<"\n", "\n">>

\* Anchor.__init__: self._intent = intent.strip()
Anchor(intent) == Strip(intent)

\* Anchor.render() of the stored intent
anchor_render(_intent) ==
  IF _intent = <<>> THEN <<>> ELSE s_task_anchor \o _intent

\* [e.render(today) for e in entries]
RenderEach(entries, today, now) ==
  [n \in 1..Len(entries) |-> render(entries[n], today, now)]

\* ContextBuilder.build_prefix(today) on the entries of the journal
builder_build_prefix(entries, today, now) ==
  IF entries = <<>> THEN <<>>
  ELSE _BLOCK1_HEADER \o Join(s_blank_line, RenderEach(entries, today, now))

\* The spelling of a message's role.
RoleStr(role) ==
  IF role = "user" THEN <<"u", "s", "e", "r">>
  ELSE <<"a", "s", "s", "i", "s", "t", "a", "n", "t">>

\* f"[{msg.get('role', 'unknown')}]: {msg.get('content', '')}"
FormatMessage(msg) == <<"[">> \o RoleStr(msg.role) \o <<"]", ":", " ">> \o msg.content

\* ContextBuilder._format_session(messages)
_format_session(messages) ==
  Join(<<"\n">>, [n \in 1..Len(messages) |-> FormatMessage(messages[n])])

\* parts of ContextManager.build_prefix: each text appended if not empty.
PrefixParts(anchor_text, obs_prefix) ==
  (IF anchor_text # <<>> THEN <<anchor_text>> ELSE <<>>)
    \o (IF obs_prefix # <<>> THEN <<obs_prefix>> ELSE <<>>)

\* What a builder returns: the text, or ok = FALSE when entries() raised.
Built(text) == [ok |-> TRUE, text |-> text]

BuildRaised == [ok |-> FALSE, text |-> <<>>]

\* ContextManager.build_prefix(today) once the journal is parsed.
PrefixOf(_intent, parsed, today, now) ==
  IF ~parsed.ok THEN BuildRaised
  ELSE Built(Join(s_blank_line,
                  PrefixParts(anchor_render(_intent),
                              builder_build_prefix(parsed.entries, today, now))))

\* A faulty build_prefix: today is not handed on to the ContextBuilder, which
\* renders against the clock.
build_prefixOfClock(_intent, raw, today, now) == PrefixOf(_intent, _parse(raw), NoDate, now)

\* ContextManager.build_prefix(today)
build_prefix(_intent, raw, today, now) == PrefixOf(_intent, _parse(raw), today, now)

\* A faulty build: the session block comes before the prefix.
BuildOfSessionFirst(prefix, session_text) ==
  IF ~prefix.ok THEN BuildRaised
  ELSE IF prefix.text # <<>> /\ session_text # <<>>
    THEN Built(_BLOCK2_HEADER \o session_text \o s_blank_line \o prefix.text)
  ELSE IF prefix.text # <<>> THEN prefix
  ELSE IF session_text # <<>> THEN Built(_BLOCK2_HEADER \o session_text)
  ELSE Built(<<>>)

\* ContextManager.build(today) once the prefix and the session text are made.
BuildOf(prefix, session_text) ==
  IF ~prefix.ok THEN BuildRaised
  ELSE IF prefix.text # <<>> /\ session_text # <<>>
    THEN Built(prefix.text \o s_blank_line \o _BLOCK2_HEADER \o session_text)
  ELSE IF prefix.text # <<>> THEN prefix
  ELSE IF session_text # <<>> THEN Built(_BLOCK2_HEADER \o session_text)
  ELSE Built(<<>>)

\* ContextManager.build(today)
build(_intent, raw, messages, today, now) ==
  BuildOf(build_prefix(_intent, raw, today, now), _format_session(messages))

(***************************************************************************)
(* context_manager.py: the state of one ContextManager and its directory   *)
(***************************************************************************)

VARIABLES
  config,    \* AgentCtxConfig: observer_threshold, reflector_threshold
  journal,   \* content of observations.md (read_raw(): empty when missing)
  audit,     \* the entries of audit.jsonl, oldest first
  session,   \* ContextManager._session_messages
  snapshot,  \* the content the last audit entry was written for
  edits,     \* number of changes of observations.md that audit.jsonl misses
             \* so far: out-of-band edits and interrupted writes
  last,      \* what the last operation did and returned
  input,     \* the argument of the function under study (function specifications)
  output,    \* its result
  procs,     \* for ContextManager instances that share the directory: where
             \* each is in its observe call and what it has read so far
  storage,   \* the storage directory: whether it exists, its mode, and who
             \* made it
  run_files, \* the <run_id>.json files of the storage directory
  run_states \* the RunState objects of the process

vars ==
  <<config, journal, audit, session, snapshot, edits, last, input, output, procs,
    storage, run_files, run_states>>

(***************************************************************************)
(* The storage directory                                                   *)
(***************************************************************************)

\* A file mode written as three octal digits.
Octal(owner, group, other) == owner * 64 + group * 8 + other

\* A directory with its mode and the code that made it.
Dir(mode, made_by) == [exists |-> TRUE, mode |-> mode, made_by |-> made_by]

\* No directory at storage_path.
NoDir == [exists |-> FALSE, mode |-> 0, made_by |-> "nobody"]

\* Path.mkdir: the mode of a new directory under a umask given by its three
\* octal digits, 0o777 & ~umask.
Mkdir(umask) == Octal(7 - umask[1], 7 - umask[2], 7 - umask[3])

\* The directory the caller made before the first operation, as the tests'
\* tmp_path is.
ExistingDir == Dir(Octal(7, 5, 5), "caller")

\* ObservationLog._ensure_file on the directory: parent.mkdir(parents=True);
\* parent.chmod(0o700) when it does not exist.
LogEnsureDir(dir, umask) ==
  IF ~dir.exists THEN Dir(Octal(7, 0, 0), "ObservationLog") ELSE dir

\* AuditLog._ensure_file on the directory:
\* self.path.parent.mkdir(parents=True, exist_ok=True)
AuditEnsureDir(dir, umask) ==
  IF ~dir.exists THEN Dir(Mkdir(umask), "AuditLog") ELSE dir

\* date.today(), fixed over a run.
Today == Date(2026, 1, 2)

RECURSIVE SumContentLen(_)
\* sum(len(m.get("content", "")) for m in messages)
SumContentLen(messages) ==
  IF messages = <<>> THEN 0
  ELSE Len(Head(messages).content) + SumContentLen(Tail(messages))

RECURSIVE _session_token_countEach(_)
\* A faulty _session_token_count: each message is floored on its own.
_session_token_countEach(messages) ==
  IF messages = <<>> THEN 0
  ELSE (Len(Head(messages).content) \div 4) + _session_token_countEach(Tail(messages))

\* ContextManager._session_token_count() of a message list
_session_token_count(messages) == SumContentLen(messages) \div 4

\* A faulty _maybe_reflect: the Reflector's rewrite gets no audit entry.
MaybeAuditNever(raw, aud, r) ==
  [raw |-> r.raw, audit |-> aud,
   invoked |-> TRUE, ret |-> r.ret, called |-> r.called, raised |-> r.raised]

\* `if rewrote: self._audit_log.append("reflector", prev, read_raw())`
MaybeAudit(raw, aud, r) ==
  [raw |-> r.raw,
   audit |-> IF r.ret THEN AuditAppend(aud, "reflector", raw, r.raw) ELSE aud,
   invoked |-> TRUE, ret |-> r.ret, called |-> r.called, raised |-> r.raised]

\* A faulty _maybe_reflect: the Reflector runs only above the threshold.
_maybe_reflectAbove(raw, aud, cfg, response) ==
  IF token_count_approx(raw) > cfg.reflector_threshold
    THEN MaybeAudit(raw, aud, reflect(raw, response))
    ELSE [raw |-> raw, audit |-> aud, invoked |-> FALSE, ret |-> FALSE,
          called |-> FALSE, raised |-> FALSE]

\* ContextManager._maybe_reflect() on journal content raw and audit entries
\* aud, with the LLM answering response.
_maybe_reflect(raw, aud, cfg, response) ==
  IF token_count_approx(raw) >= cfg.reflector_threshold
    THEN MaybeAudit(raw, aud, reflect(raw, response))
    ELSE [raw |-> raw, audit |-> aud, invoked |-> FALSE, ret |-> FALSE,
          called |-> FALSE, raised |-> FALSE]

\* ed = date.fromisoformat(event_date) if event_date else date.today();
\* event_date is an ISO date string, empty for None.
EventDate(event_date) ==
  IF event_date # <<>> THEN FromIsoFormat(event_date) ELSE [ok |-> TRUE, date |-> Today]

\* The text observe hands to the sanitizer.
ObserveBody(text) ==
  IF LeadingMarker(text) = None THEN text ELSE AfterMarker(text)

\* The priority observe submits.
ObservePriority(text) ==
  IF LeadingMarker(text) = None THEN GlyphGreen ELSE LeadingMarker(text)

\* The entry ContextManager.observe(text, event_date) builds, with the
\* priority submitted and the sanitizer's was_truncated.
ObserveEntry(text, ed) == BuildEntry(ObservePriority(text), ObserveBody(text), Today, ed.date)

(***************************************************************************)
(* The inputs the operations are tried with                                *)
(***************************************************************************)

\* Audit entries a run may hold before the last writing operation.
MaxAudit == 2

\* Characters a session may hold before the last add_message.
MaxSessionChars == 10

\* Out-of-band edits and interrupted writes in a run.
MaxEdits == 1

\* A text longer than the per-entry budget.
LongText == [k \in 1..(MaxEntryChars + 2) |-> "x"]

s_yesterday == <<"2", "0", "2", "6", "-", "0", "1", "-", "0", "1">>

s_tomorrow == <<"2", "0", "2", "6", "-", "0", "1", "-", "0", "3">>

\* A line the header pattern of observation_log.py matches as the file spells it.
s_header == <<"u00A2">> \o s_observed_on \o DateStr(Today) \o s_event_date \o s_yesterday

\* The header the code writes for a routine entry of today.
s_glyph_header == <<GlyphGreen>> \o s_observed_on \o DateStr(Today) \o s_event_date \o DateStr(Today)

\* A header of the right shape whose observed_on is no calendar date.
s_bad_date_header ==
  <<"u00A2">> \o s_observed_on \o <<"2", "0", "2", "6", "-", "1", "3", "-", "4", "5">>
    \o s_event_date \o s_yesterday

\* observe(text, event_date) as it is called: a text with a marker and the
\* event date of yesterday, a text over the budget, and a text without a
\* marker that has a blank line and a line shaped like a header, with the
\* event date of tomorrow.
ObserveInputs ==
  { [text |-> <<GlyphRed, " ", "b">>, event_date |-> s_yesterday],
    [text |-> <<GlyphYellow, " ">> \o LongText, event_date |-> <<>>],
    [text |-> <<"c", "\n", "\n">> \o s_header \o <<"\n", "d">>, event_date |-> s_tomorrow] }

\* A message of one token: the second message of a session reaches the threshold.
MessageContents == { <<"a", "b", "c", "d">> }

ObserverThresholds == {2}

ReflectorThresholds == {0, 20}

\* What the LLM answers the Observer: nothing, prose without a marker, two
\* entries around a line without a marker (the second over the budget), or
\* an error.
ObserverResponses ==
  { Answer(<<>>),
    Answer(<<"n", "o", " ", "m", "a", "r", "k", "e", "r">>),
    Answer(<<GlyphYellow, ":", " ", "w", "\n", "n", "o", "i", "s", "e", "\n", GlyphGreen, " ">>
             \o LongText),
    LLMError }

\* What the LLM answers the Reflector: no entry, an entry under a header the
\* parser matches, an entry under the header the code writes, one block of
\* each of these two kinds, an entry under a header with an impossible date,
\* or an error.
ReflectorResponses ==
  { Answer(<<"g", "a", "r", "b", "a", "g", "e">>),
    Answer(s_header \o <<"\n", "m">>),
    Answer(s_glyph_header \o <<"\n", "m">>),
    Answer(s_glyph_header \o <<"\n", "r", "\n", "\n">> \o s_header \o <<"\n", "m">>),
    Answer(s_bad_date_header \o <<"\n", "m">>),
    LLMError }

\* What an operator may leave in observations.md with an editor: a line of
\* prose, and a block under a header the parser matches.
TamperContents ==
  { <<"t", "a", "m", "p", "e", "r", "e", "d", " ", "c", "o", "n", "t", "e", "n", "t", "\n", "\n">>
      \o s_header \o <<"\n", "k", "\n">> }

(***************************************************************************)
(* context_manager.py: the public operations, one action each              *)
(***************************************************************************)

NoEntry == ObservationEntry(None, Today, Today, <<>>, FALSE)

\* The record of an operation: its name, whether it raised, what it returned
\* (ret, entry, written), the journal, the number of audit entries and the
\* session before it; for add_message the session once the message is
\* pushed; for observe the priority submitted and the sanitizer's was_truncated
\* (for a flush, lines holds them per entry written); for a flush what the
\* Observer left (journal, number of audit entries), whether the Reflector
\* was invoked, whether it called the LLM, what it returned, and the answer
\* the LLM had for it (response; the Reflector gets it only if it calls); observer_response is the LLM's answer to the Observer and
\* observer_raised tells that this call raised.
Done(op) ==
  [op |-> op, raised |-> FALSE, ret |-> FALSE, entry |-> NoEntry,
   submitted |-> None, was_truncated |-> FALSE, written |-> <<>>, lines |-> <<>>,
   prev |-> journal, prev_audit |-> Len(audit), prev_session |-> session,
   messages |-> <<>>, flushed |-> FALSE, llm_calls |-> 0,
   observer_response |-> Answer(<<>>), observer_raised |-> FALSE,
   observer_raw |-> journal, observer_audit |-> Len(audit),
   reflect_invoked |-> FALSE, reflect_called |-> FALSE, reflect_ret |-> FALSE,
   response |-> Answer(<<>>)]

Init ==
  /\ config \in [observer_threshold : ObserverThresholds,
                 reflector_threshold : ReflectorThresholds]
  /\ journal = <<>>
  /\ audit = <<>>
  /\ session = <<>>
  /\ snapshot = <<>>
  /\ edits = 0
  /\ last = [Done("init") EXCEPT !.prev = <<>>, !.prev_audit = 0,
                                 !.prev_session = <<>>,
                                 !.observer_raw = <<>>, !.observer_audit = 0]
  /\ input = <<>>
  /\ output = <<>>
  /\ procs = <<>>
  /\ storage = ExistingDir
  /\ run_files = <<>>
  /\ run_states = <<>>

\* A faulty observe: the two contents handed to the audit log are swapped.
ObserveWriteSwapped(b) ==
  /\ journal' = LogAppend(journal, b.entry)
  /\ audit' = AuditAppend(audit, "manual", journal', journal)
  /\ snapshot' = journal'
  /\ last' = [Done("observe") EXCEPT !.entry = b.entry, !.submitted = b.submitted,
                                     !.was_truncated = b.was_truncated]

\* What a faulty observe leaves when _maybe_reflect has returned m.
ObserveReflected(b, m) ==
  /\ journal' = m.raw
  /\ audit' = m.audit
  /\ snapshot' = m.raw
  /\ last' = [Done("observe") EXCEPT !.entry = b.entry, !.submitted = b.submitted,
                                     !.was_truncated = b.was_truncated,
                                     !.reflect_invoked = m.invoked,
                                     !.reflect_called = m.called,
                                     !.reflect_ret = m.ret,
                                     !.llm_calls = IF m.called THEN 1 ELSE 0]

\* A faulty observe: it ends with self._maybe_reflect(), as a flush does.
ObserveWriteReflecting(b) ==
  \E ref \in ReflectorResponses :
    ObserveReflected(b, _maybe_reflect(LogAppend(journal, b.entry),
                                       AuditAppend(audit, "manual", journal,
                                                   LogAppend(journal, b.entry)),
                                       config, ref))

\* A faulty observe: the audit entry is computed from the content of the last
\* recorded write instead of the file as it is read.
ObserveWriteCached(b) ==
  /\ journal' = LogAppend(journal, b.entry)
  /\ audit' = AuditAppend(audit, "manual", snapshot, LogAppend(snapshot, b.entry))
  /\ snapshot' = journal'
  /\ last' = [Done("observe") EXCEPT !.entry = b.entry, !.submitted = b.submitted,
                                     !.was_truncated = b.was_truncated]

\* prev = read_raw(); append(entry); audit.append("manual", prev, read_raw());
\* return entry
ObserveWrite(b) ==
  /\ journal' = LogAppend(journal, b.entry)
  /\ audit' = AuditAppend(audit, "manual", journal, journal')
  /\ snapshot' = journal'
  /\ last' = [Done("observe") EXCEPT !.entry = b.entry, !.submitted = b.submitted,
                                     !.was_truncated = b.was_truncated]

\* ContextManager.observe(text, event_date)
Observe(text, event_date) ==
  /\ Len(audit) < MaxAudit
  /\ EventDate(event_date).ok
  /\ ObserveWrite(ObserveEntry(text, EventDate(event_date)))
  /\ UNCHANGED <<config, procs, storage, run_files, run_states, session, edits, input, output>>

\* A faulty _run_observer: the audit entry is written whether or not the
\* journal changed.
ObserverAuditAlways(c) == AuditAppend(audit, "observer", journal, c.raw)

\* `if new != prev: self._audit_log.append("observer", prev, new)`, c being
\* what compress returned and left.
ObserverAudit(c) ==
  IF c.raw # journal THEN AuditAppend(audit, "observer", journal, c.raw) ELSE audit

ObserverSnapshot(c) == IF c.raw # journal THEN c.raw ELSE snapshot

\* The record of a flush: c from compress, m from _maybe_reflect, ref the
\* LLM's answer to the Reflector.
FlushDone(messages, obs, c, m, ref) ==
  [Done("add_message") EXCEPT
     !.messages = messages,
     !.observer_response = obs,
     !.flushed = TRUE,
     !.raised = m.raised,
     !.written = c.entries,
     !.lines = c.lines,
     !.llm_calls = (IF c.called THEN 1 ELSE 0) + (IF m.called THEN 1 ELSE 0),
     !.observer_raw = c.raw,
     !.observer_audit = Len(ObserverAudit(c)),
     !.reflect_invoked = m.invoked,
     !.reflect_called = m.called,
     !.reflect_ret = m.ret,
     !.response = IF m.invoked THEN ref ELSE Answer(<<>>)]

\* A faulty _run_observer: the session is cleared only when the Observer
\* wrote something.
AfterReflectKeeping(messages, obs, c, m, ref) ==
  /\ journal' = m.raw
  /\ audit' = m.audit
  /\ snapshot' = IF m.ret THEN m.raw ELSE ObserverSnapshot(c)
  /\ session' = IF c.entries = <<>> THEN messages ELSE <<>>
  /\ last' = FlushDone(messages, obs, c, m, ref)

\* A faulty _run_observer: the session is cleared after _maybe_reflect, so a
\* Reflector that raises leaves the messages in the buffer.
AfterReflectRestoring(messages, obs, c, m, ref) ==
  /\ journal' = m.raw
  /\ audit' = m.audit
  /\ snapshot' = IF m.ret THEN m.raw ELSE ObserverSnapshot(c)
  /\ session' = IF m.raised THEN messages ELSE <<>>
  /\ last' = FlushDone(messages, obs, c, m, ref)

\* _run_observer from self._maybe_reflect() on.
AfterReflect(messages, obs, c, m, ref) ==
  /\ journal' = m.raw
  /\ audit' = m.audit
  /\ snapshot' = IF m.ret THEN m.raw ELSE ObserverSnapshot(c)
  /\ session' = <<>>
  /\ last' = FlushDone(messages, obs, c, m, ref)

\* A faulty _run_observer: the session is cleared even when compress raises.
AfterCompressClearing(messages, obs, c) ==
  IF c.raised
    THEN /\ session' = <<>>
         /\ last' = [Done("add_message") EXCEPT !.messages = messages,
                                                !.flushed = TRUE, !.raised = TRUE,
                                                !.llm_calls = 1,
                                                !.observer_response = obs,
                                                !.observer_raised = TRUE]
         /\ UNCHANGED <<journal, audit, snapshot>>
    ELSE \E ref \in ReflectorResponses :
           AfterReflect(messages, obs, c,
                        _maybe_reflect(c.raw, ObserverAudit(c), config, ref), ref)

\* _run_observer from the return of compress on; an exception of compress
\* leaves the session, the journal and the audit log as they were.
AfterCompress(messages, obs, c) ==
  IF c.raised
    THEN /\ session' = messages
         /\ last' = [Done("add_message") EXCEPT !.messages = messages,
                                                !.flushed = TRUE, !.raised = TRUE,
                                                !.llm_calls = 1,
                                                !.observer_response = obs,
                                                !.observer_raised = TRUE]
         /\ UNCHANGED <<journal, audit, snapshot>>
    ELSE \E ref \in ReflectorResponses :
           AfterReflect(messages, obs, c,
                        _maybe_reflect(c.raw, ObserverAudit(c), config, ref), ref)

\* ContextManager._run_observer() on the session's messages, with the LLM
\* answering the Observer with obs and, if it comes to that, the Reflector
\* with one of ReflectorResponses.
_run_observer(messages, obs) ==
  AfterCompress(messages, obs, compress(journal, messages, obs, Today))

\* A faulty add_message: the Observer fires only above the threshold.
AfterAppendAbove(messages) ==
  IF _session_token_count(messages) > config.observer_threshold
    THEN /\ Len(audit) < MaxAudit
         /\ \E obs \in ObserverResponses : _run_observer(messages, obs)
    ELSE /\ session' = messages
         /\ last' = [Done("add_message") EXCEPT !.messages = messages]
         /\ UNCHANGED <<journal, audit, snapshot>>

\* add_message once the message is appended to the session.
AfterAppend(messages) ==
  IF _session_token_count(messages) >= config.observer_threshold
    THEN /\ Len(audit) < MaxAudit
         /\ \E obs \in ObserverResponses : _run_observer(messages, obs)
    ELSE /\ session' = messages
         /\ last' = [Done("add_message") EXCEPT !.messages = messages]
         /\ UNCHANGED <<journal, audit, snapshot>>

\* A faulty add_message: the message is put in front of the buffer.
AddMessagePrepending(role, content) ==
  /\ SumContentLen(session) < MaxSessionChars
  /\ AfterAppend(<<[role |-> role, content |-> content]>> \o session)
  /\ UNCHANGED <<config, procs, storage, run_files, run_states, edits, input, output>>

\* ContextManager.add_message(role, content)
AddMessage(role, content) ==
  /\ SumContentLen(session) < MaxSessionChars
  /\ AfterAppend(Append(session, [role |-> role, content |-> content]))
  /\ UNCHANGED <<config, procs, storage, run_files, run_states, edits, input, output>>

\* A faulty verify_integrity: it checks the content of the last recorded write
\* instead of reading observations.md again.
VerifyIntegrityCached ==
  /\ last.op # "verify_integrity"
  /\ last' = [Done("verify_integrity") EXCEPT !.ret = verify(audit, snapshot)]
  /\ UNCHANGED <<config, procs, storage, run_files, run_states, journal, audit, session, snapshot, edits, input, output>>

\* ContextManager.verify_integrity()
VerifyIntegrity ==
  /\ last.op # "verify_integrity"
  /\ last' = [Done("verify_integrity") EXCEPT !.ret = verify(audit, journal)]
  /\ UNCHANGED <<config, procs, storage, run_files, run_states, journal, audit, session, snapshot, edits, input, output>>

\* Out-of-band: somebody overwrites observations.md.
Tamper(content) ==
  /\ edits < MaxEdits
  /\ content # journal
  /\ journal' = content
  /\ edits' = edits + 1
  /\ last' = Done("tamper")
  /\ UNCHANGED <<config, procs, storage, run_files, run_states, audit, session, snapshot, input, output>>

\* observe interrupted between the journal's append and the audit entry
\* (audit.jsonl cannot be written): the exception leaves the entry in the
\* journal and no audit entry for it.
ObserveInterrupted(text, event_date) ==
  /\ edits < MaxEdits
  /\ EventDate(event_date).ok
  /\ journal' = LogAppend(journal, ObserveEntry(text, EventDate(event_date)).entry)
  /\ edits' = edits + 1
  /\ last' = [Done("observe_interrupted") EXCEPT !.raised = TRUE]
  /\ UNCHANGED <<config, procs, storage, run_files, run_states, audit, session, snapshot, input, output>>

RECURSIVE AppendEntries(_, _, _, _)
\* The journal after the appends of the n-th to the k-th of entries.
AppendEntries(raw, entries, n, k) ==
  IF n > k THEN raw
  ELSE AppendEntries(LogAppend(raw, entries[n]), entries, n + 1, k)

\* A flush interrupted by an I/O failure once the Observer has appended k of
\* the entries of its response: before the last one the exception leaves
\* compress and the session stays; after the last one it is the audit entry
\* that fails, the session being cleared already.
InterruptedAt(messages, c, k) ==
  /\ journal' = AppendEntries(journal, c.entries, 1, k)
  /\ session' = IF k < Len(c.entries) THEN messages ELSE <<>>
  /\ edits' = edits + 1
  /\ last' = [Done("add_message_interrupted") EXCEPT
                !.raised = TRUE, !.messages = messages, !.flushed = TRUE,
                !.llm_calls = 1, !.written = SubSeq(c.entries, 1, k),
                !.lines = SubSeq(c.lines, 1, k)]
  /\ UNCHANGED <<config, procs, storage, run_files, run_states, audit, snapshot, input, output>>

InterruptedCompress(messages, c) ==
  \E k \in 1..Len(c.entries) : InterruptedAt(messages, c, k)

InterruptedRun(messages) ==
  /\ _session_token_count(messages) >= config.observer_threshold
  /\ \E obs \in ObserverResponses :
       InterruptedCompress(messages, compress(journal, messages, obs, Today))

\* ContextManager.add_message(role, content) whose flush an I/O failure
\* interrupts after a write of the Observer.
AddMessageInterrupted(role, content) ==
  /\ edits < MaxEdits
  /\ SumContentLen(session) < MaxSessionChars
  /\ InterruptedRun(Append(session, [role |-> role, content |-> content]))

Next ==
  \/ \E i \in ObserveInputs : Observe(i.text, i.event_date)
  \/ \E content \in MessageContents : AddMessage("user", content)
  \/ VerifyIntegrity
  \/ \E content \in TamperContents : Tamper(content)

Spec == Init /\ [][Next]_vars

\* The ContextManager on a disk that may fail in the middle of a write.
NextInterrupted ==
  \/ Next
  \/ \E i \in ObserveInputs : ObserveInterrupted(i.text, i.event_date)
  \/ \E content \in MessageContents : AddMessageInterrupted("user", content)

SpecInterrupted == Init /\ [][NextInterrupted]_vars

(***************************************************************************)
(* Properties of the ContextManager (Spec)                                 *)
(***************************************************************************)

\* C1: as long as nobody has edited observations.md out of band, after every
\* public operation verify_integrity() would return True, and when audit.jsonl
\* has entries the digest of its last entry is the digest of the journal.
C1_IntegrityHolds ==
  edits = 0 =>
    /\ verify(audit, journal)
    /\ audit # <<>> => last_hash(audit) = hash_content(journal)

\* A flush on the untouched journal in which the Observer wrote and the
\* Reflector rewrote, both recorded in audit.jsonl.
C1_Witness ==
  /\ edits = 0
  /\ last.op = "add_message" /\ last.flushed /\ ~last.raised
  /\ last.written # <<>>
  /\ last.reflect_ret
  /\ Len(audit) = last.prev_audit + 2
  /\ last_entry(audit).source = "reflector"
  /\ journal # last.observer_raw

\* C2: with at least one audit entry written, when observations.md holds a
\* content other than the one the last audit entry was written for,
\* verify_integrity() returns False.
C2_TamperDetected ==
  (last.op = "verify_integrity" /\ audit # <<>> /\ journal # snapshot) => last.ret = FALSE

\* verify_integrity() called after an out-of-band overwrite that followed a
\* write through the API.
C2_Witness ==
  /\ last.op = "verify_integrity"
  /\ audit # <<>>
  /\ edits > 0
  /\ journal # snapshot
  /\ journal \in TamperContents
  /\ last.ret = FALSE

\* C3: reflect() is a no-op returning False (a) without a call of the LLM when
\* the journal is empty once trimmed or parses to no entry, and (b) when the
\* LLM's response parses to no entry: the journal keeps the content the
\* Observer left and the flush adds no audit entry for the Reflector.
C3_ReflectNoOp ==
  (last.op = "add_message" /\ last.flushed /\ last.reflect_invoked) =>
    /\ (\/ Strip(last.observer_raw) = <<>>
        \/ (_parse(last.observer_raw).ok /\ _parse(last.observer_raw).entries = <<>>))
         => /\ ~last.reflect_called
            /\ ~last.reflect_ret
            /\ journal = last.observer_raw
            /\ Len(audit) = last.observer_audit
    /\ (/\ last.reflect_called
        /\ ~last.response.raises
        /\ _parse(last.response.text).ok
        /\ _parse(last.response.text).entries = <<>>)
         => /\ ~last.reflect_ret
            /\ journal = last.observer_raw
            /\ Len(audit) = last.observer_audit

\* A flush whose Reflector found entries in the journal, called the LLM and
\* got a response that parses to no entry.
C3_Witness ==
  /\ last.op = "add_message" /\ last.flushed /\ last.reflect_invoked
  /\ last.reflect_called
  /\ ~last.response.raises
  /\ last.response.text # <<>>
  /\ _parse(last.response.text).ok
  /\ _parse(last.response.text).entries = <<>>
  /\ ~last.reflect_ret
  /\ journal = last.observer_raw
  /\ journal # <<>>

\* C4: observe(text) makes entries() one longer, its new last entry being the
\* entry observe returned, whatever the text and the journal's prior content.
C4_ObserveAddsOneEntry ==
  last.op = "observe" =>
    /\ _parse(last.prev).ok
    /\ _parse(journal).ok
    /\ _parse(journal).entries = Append(_parse(last.prev).entries, last.entry)

\* C9: an entry whose text the sanitizer truncated is recorded as critical
\* whatever priority was submitted, and any other entry with the priority
\* submitted, by observe and by the Observer's writes of a flush.
C9_TruncatedIsCritical ==
  /\ last.op = "observe" =>
       last.entry.priority = (IF last.was_truncated THEN GlyphRed ELSE last.submitted)
  /\ \A n \in 1..Len(last.written) :
       last.written[n].priority =
         (IF last.lines[n].was_truncated THEN GlyphRed ELSE last.lines[n].submitted)

\* A flush that wrote one entry as submitted and a truncated one, submitted
\* as routine, as critical.
C9_Witness ==
  /\ last.op = "add_message" /\ last.flushed
  /\ \E n \in 1..Len(last.written) :
       /\ last.lines[n].was_truncated
       /\ last.lines[n].submitted = GlyphGreen
       /\ last.written[n].priority = GlyphRed
  /\ \E n \in 1..Len(last.written) :
       /\ ~last.lines[n].was_truncated
       /\ last.written[n].priority = GlyphYellow

(***************************************************************************)
(* ObservationLog alone: append and overwrite on a file that starts missing *)
(***************************************************************************)

\* Entries the file may hold before an append, and entries of an overwrite.
MaxLogEntries == 2

\* Entries as callers build them: a routine one whose text has a blank line,
\* an external one under a priority the header pattern matches, a critical
\* one with an empty text, and a plain one.
LogEntries ==
  { ObservationEntry(GlyphGreen, Today, Today, <<"a", "\n", "\n", "b">>, FALSE),
    ObservationEntry("u00A2", Today, Date(2026, 1, 1), <<"k">>, TRUE),
    ObservationEntry(GlyphRed, Today, Today, <<>>, FALSE),
    ObservationEntry("u00A2", Today, Today, <<"p">>, FALSE) }

EntryLists == UNION { [1..k -> LogEntries] : k \in 0..MaxLogEntries }

\* The variables an ObservationLog or a function on its own does not touch.
Untouched ==
  /\ config = <<>>
  /\ procs = <<>>
  /\ storage = ExistingDir
  /\ run_files = <<>>
  /\ run_states = <<>>
  /\ audit = <<>>
  /\ session = <<>>
  /\ snapshot = <<>>
  /\ edits = 0

\* output lists the entries written since the file was last overwritten.
InitLog ==
  /\ Untouched
  /\ journal = <<>>
  /\ input = <<>>
  /\ output = <<>>
  /\ last = Done("init")

\* ObservationLog.append(entry)
append(entry) ==
  /\ Len(output) < MaxLogEntries
  /\ journal' = LogAppend(journal, entry)
  /\ output' = Append(output, entry)
  /\ last' = [Done("append") EXCEPT !.entry = entry]
  /\ UNCHANGED <<config, procs, storage, run_files, run_states, audit, session, snapshot, edits, input>>

\* ObservationLog.overwrite(entries)
overwrite(entries) ==
  /\ journal' = LogOverwrite(entries)
  /\ output' = entries
  /\ last' = [Done("overwrite") EXCEPT !.written = entries]
  /\ UNCHANGED <<config, procs, storage, run_files, run_states, audit, session, snapshot, edits, input>>

NextLog ==
  \/ \E entry \in LogEntries : append(entry)
  \/ \E entries \in EntryLists : overwrite(entries)

SpecLog == InitLog /\ [][NextLog]_vars

\* C5: append(e) on a file of any content makes entries() one longer, its last
\* entry being e.
C5_AppendAddsOneEntry ==
  last.op = "append" =>
    /\ _parse(last.prev).ok
    /\ _parse(journal).ok
    /\ _parse(journal).entries = Append(_parse(last.prev).entries, last.entry)

\* C8: after any sequence of appends and overwrites on a file that started
\* missing, the file is empty or holds its serialized entries separated by
\* exactly two line feeds and ends with exactly one; an overwrite with no
\* entry leaves it empty.
C8_FileLayout ==
  /\ journal =
       (IF output = <<>> THEN <<>>
        ELSE Join(<<"\n", "\n">>, [n \in 1..Len(output) |-> serialize(output[n])])
               \o <<"\n">>)
  /\ journal # <<>> =>
       /\ journal[Len(journal)] = "\n"
       /\ Len(journal) >= 2 => journal[Len(journal) - 1] # "\n"

(***************************************************************************)
(* serialize and _parse on their own                                       *)
(***************************************************************************)

\* Entries of every priority, with a leap day as event date, with texts that
\* have a blank line, leading spaces or nothing, external or not.
RoundTripEntries ==
  { ObservationEntry(p, Today, d, t, x) :
      p \in {GlyphRed, GlyphYellow, GlyphGreen, "u00A2"},
      d \in {Today, Date(2024, 2, 29)},
      t \in { <<"a">>, <<"a", "\n", "\n", "b">>, <<" ", "a">>, <<>>, <<"k", "\n", "l">> },
      x \in BOOLEAN }

NoResult == [ok |-> TRUE, entries |-> <<>>]

InitRoundTrip ==
  /\ Untouched
  /\ journal = <<>>
  /\ input \in RoundTripEntries
  /\ output = NoResult
  /\ last = Done("init")

\* ObservationLog._parse(e.serialize()) of the entry e in input
ParseSerialized ==
  /\ last.op = "init"
  /\ output' = _parse(serialize(input))
  /\ last' = Done("parse_serialized")
  /\ UNCHANGED <<config, procs, storage, run_files, run_states, journal, audit, session, snapshot, edits, input>>

NextRoundTrip == ParseSerialized

SpecRoundTrip == InitRoundTrip /\ [][NextRoundTrip]_vars

\* C6: parsing the serialized form of an entry of any of the three priorities
\* gives exactly that entry, whatever its dates, text and external flag.
C6_RoundTrip ==
  (last.op = "parse_serialized" /\ input.priority \in {GlyphRed, GlyphYellow, GlyphGreen})
    => (output.ok /\ output.entries = <<input>>)

\* Blocks of a raw content the parser is given.
MaxBlocks == 2

s_bad_glyph_header ==
  <<GlyphGreen>> \o s_observed_on \o <<"2", "0", "2", "6", "-", "1", "3", "-", "4", "5">>
    \o s_event_date \o s_yesterday

\* Blocks: prose, entries under a header the pattern matches (with text, bare,
\* external), an entry under the header the code writes, and headers of the
\* right shape whose observed_on is no calendar date.
Blocks ==
  { <<"p", "r", "o", "s", "e">>,
    s_header \o <<"\n", "x">>,
    s_header,
    s_header \o s_ext \o <<"\n", "x">>,
    s_glyph_header \o <<"\n", "x">>,
    s_bad_date_header \o <<"\n", "x">>,
    s_bad_glyph_header \o <<"\n", "x">> }

ParseInputs ==
  { Join(<<"\n", "\n">>, bs) : bs \in UNION { [1..k -> Blocks] : k \in 1..MaxBlocks } }

InitParse ==
  /\ Untouched
  /\ journal = <<>>
  /\ input \in ParseInputs
  /\ output = NoResult
  /\ last = Done("init")

\* ObservationLog._parse(raw) of the raw content in input
Parse ==
  /\ last.op = "init"
  /\ output' = _parse(input)
  /\ last' = Done("_parse")
  /\ UNCHANGED <<config, procs, storage, run_files, run_states, journal, audit, session, snapshot, edits, input>>

NextParse == Parse

SpecParse == InitParse /\ [][NextParse]_vars

\* C7: the parser never fails: a header that is not valid, one whose dates
\* have the digits' shape but are no calendar dates included, is skipped.
C7_ParseNeverFails ==
  last.op = "_parse" => output.ok

(***************************************************************************)
(* Sanitizer.sanitize_for_observation on its own                           *)
(***************************************************************************)

\* Fragments a text is made of.
MaxFragments == 2

\* A budget that some redacted texts exceed and some meet exactly.
SmallBudget == 13

\* Fragments: the injections of the eleven patterns, whole or in halves that
\* only match once joined.
Fragments ==
  { <<"I", "g", "n", "o", "r", "e", " ", "a", "l", "l", " ", "p", "r", "i", "o", "r", " ">>,
    <<"i", "n", "s", "t", "r", "u", "c", "t", "i", "o", "n", "s", ":">>,
    <<"n", "e", "w", " ">>,
    <<"y", "o", "u", " ", "a", "r", "e", " ", "n", "o", "w", " ", "a", " ">>,
    <<"b", "o", "t">>,
    <<"p", "r", "e", "t", "e", "n", "d", " ", "a", "s", " ", "i", "f", " ", "y", "o", "u", " ", "w", "e", "r", "e", " ", "t", "h", "e", " ">>,
    <<"f", "o", "r", "g", "e", "t", " ", "a", "l", "l">>,
    <<"#", "#", " ", "S", "y", "s", "t", "e", "m", " ", ":">>,
    <<"<", "s", "y", "s", "t", "e", "m", ">", "x">>,
    <<"<", "/", " ", "s", "y", "s", "t", "e", "m", " ", ">">>,
    <<"<", "I", "n", "s", "t", "r", "u", "c", "t", "i", "o", "n", ">", "<", "/", "i", "n", "s", "t", "r", "u", "c", "t", "i", "o", "n", "s", ">">>,
    <<"[", "I", "N", "S", "T", "]", "a", "[", "/", "I", "N", "S", "T", "]">>,
    <<"<", "|", "i", "m", "_", "s", "t", "a", "r", "t", "|", ">">>,
    <<"|", " ", "i", "m", "_", "s", "t", "a", "r", "t", " ", "|">> }

SanitizeTexts ==
  { Join(<<>>, fs) : fs \in UNION { [1..k -> Fragments] : k \in 1..MaxFragments } }

InitSanitize ==
  /\ Untouched
  /\ journal = <<>>
  /\ input \in [text : SanitizeTexts, budget : {0, SmallBudget, MaxEntryChars}]
  /\ output = [text |-> <<>>, was_truncated |-> FALSE, injection_count |-> 0]
  /\ last = Done("init")

\* Sanitizer.sanitize_for_observation(text, max_chars) of the input
Sanitize ==
  /\ last.op = "init"
  /\ output' = sanitize_for_observation(input.text, input.budget)
  /\ last' = Done("sanitize_for_observation")
  /\ UNCHANGED <<config, procs, storage, run_files, run_states, journal, audit, session, snapshot, edits, input>>

NextSanitize == Sanitize

SpecSanitize == InitSanitize /\ [][NextSanitize]_vars

\* C10: the text sanitize_for_observation returns has no match of any of the
\* eleven injection patterns.
C10_NoInjectionLeft ==
  last.op = "sanitize_for_observation" =>
    \A n \in 1..Len(_COMPILED) : ~HasMatch(_COMPILED[n], output.text)

\* A text of two injections, both redacted, the result cut to the budget.
C10_Witness ==
  /\ last.op = "sanitize_for_observation"
  /\ output.injection_count >= 2
  /\ output.was_truncated
  /\ \E n \in 1..Len(_COMPILED) : HasMatch(_COMPILED[n], input.text)

\* C11: sanitize_for_observation(T, b) sets was_truncated exactly when the
\* redacted and stripped text is longer than b; the text returned has at most
\* b characters when not truncated, and when truncated at most b plus the
\* length of " ... [TRUNCATED]" (with the ellipsis character) and ends with
\* "[TRUNCATED]".
C11_BudgetEnforced ==
  last.op = "sanitize_for_observation" =>
    /\ output.was_truncated <=> (Len(_strip_injections(input.text)[1]) > input.budget)
    /\ ~output.was_truncated => Len(output.text) <= input.budget
    /\ output.was_truncated =>
         /\ Len(output.text) <= input.budget + Len(s_truncated)
         /\ SubSeq(output.text, Len(output.text) - 10, Len(output.text))
              = SubSeq(s_truncated, 4, Len(s_truncated))

\* A redacted text of exactly the budget's length, returned whole.
C11_Witness ==
  /\ last.op = "sanitize_for_observation"
  /\ input.budget = SmallBudget
  /\ output.injection_count >= 1
  /\ Len(output.text) = input.budget
  /\ ~output.was_truncated

\* C12: add_message pushes the message at the end of the session buffer and
\* then runs the flush exactly when the sum of the contents' lengths over the
\* buffer, the new message included, divided by four and rounded down,
\* reaches observer_threshold; below it the LLM is not called and the journal
\* and the audit log stay as they were.
C12_FlushAtThreshold ==
  last.op = "add_message" =>
    /\ Len(last.messages) = Len(last.prev_session) + 1
    /\ SubSeq(last.messages, 1, Len(last.prev_session)) = last.prev_session
    /\ last.messages[Len(last.messages)].content \in MessageContents
    /\ last.flushed <=>
         (SumContentLen(last.messages) \div 4 >= config.observer_threshold)
    /\ ~last.flushed =>
         /\ session = last.messages
         /\ last.llm_calls = 0
         /\ journal = last.prev
         /\ Len(audit) = last.prev_audit

\* A message that stays in the buffer, below the threshold, with a journal
\* and an audit log that hold something.
C12_Witness ==
  /\ last.op = "add_message"
  /\ ~last.flushed
  /\ Len(session) = 1
  /\ SumContentLen(session) \div 4 < config.observer_threshold
  /\ journal # <<>>
  /\ audit # <<>>

\* C13: whenever a flush runs and the Observer's LLM call returns, the session
\* buffer is empty afterwards, whether the response gave entries, was empty or
\* had no line the Observer could use.
C13_SessionCleared ==
  (last.op = "add_message" /\ last.flushed /\ ~last.observer_raised) => session = <<>>

\* A flush whose Observer got prose without a marker and wrote nothing, and
\* whose Reflector then raised: the session is empty all the same.
C13_Witness ==
  /\ last.op = "add_message" /\ last.flushed /\ ~last.observer_raised
  /\ last.observer_response.text # <<>>
  /\ last.written = <<>>
  /\ last.raised
  /\ last.prev_session # <<>>
  /\ session = <<>>

\* C14: a flush records exactly one audit entry with source "observer" when
\* the journal's content after Observer.compress differs from the content
\* before it, however many entries were appended, and none when the Observer
\* wrote nothing.
C14_OneObserverAudit ==
  (last.op = "add_message" /\ last.flushed /\ ~last.observer_raised) =>
    /\ Cardinality({n \in (last.prev_audit + 1)..Len(audit) : audit[n].source = "observer"})
         = (IF last.observer_raw # last.prev THEN 1 ELSE 0)
    /\ last.observer_raw # last.prev =>
         /\ last.observer_audit = last.prev_audit + 1
         /\ audit[last.observer_audit].source = "observer"
         /\ audit[last.observer_audit].sha256 = hash_content(last.observer_raw)
    /\ last.written = <<>> =>
         /\ last.observer_raw = last.prev
         /\ last.observer_audit = last.prev_audit

\* A flush whose Observer appended two entries: one audit entry for both.
C14_Witness ==
  /\ last.op = "add_message" /\ last.flushed /\ ~last.observer_raised
  /\ Len(last.written) = 2
  /\ last.observer_audit = last.prev_audit + 1
  /\ audit[last.observer_audit].source = "observer"
  /\ last.prev # <<>>

\* C15: each observe call appends exactly one audit entry, with source
\* "manual", whose sha256 is the digest of the journal's content after the
\* write and whose char_delta is the length of the content after minus the
\* length of the content before.
C15_ManualAudit ==
  last.op = "observe" =>
    /\ Len(audit) = last.prev_audit + 1
    /\ audit[Len(audit)].source = "manual"
    /\ audit[Len(audit)].sha256 = hash_content(journal)
    /\ audit[Len(audit)].char_delta = Len(journal) - Len(last.prev)

\* A second observe: its audit entry counts the separator and the entry.
C15_Witness ==
  /\ last.op = "observe"
  /\ last.prev # <<>>
  /\ Len(audit) = 2
  /\ audit[2].source = "manual"
  /\ audit[2].char_delta = Len(serialize(last.entry)) + 3

\* C16: when the Observer's LLM call raises during a flush, the session buffer
\* still holds every message in the order of insertion, the new one last, and
\* the journal and the audit log are exactly as they were before the call.
C16_InterruptedFlush ==
  [][(last'.op = "add_message" /\ last'.observer_raised) =>
       /\ Len(session') = Len(session) + 1
       /\ SubSeq(session', 1, Len(session)) = session
       /\ session'[Len(session')].content \in MessageContents
       /\ journal' = journal
       /\ audit' = audit]_vars

\* A flush interrupted by the LLM, on a journal and an audit log that hold
\* something: the two messages are still in the session.
C16_Witness ==
  /\ last.op = "add_message" /\ last.flushed /\ last.observer_raised
  /\ Len(session) = 2
  /\ session = last.messages
  /\ journal # <<>> /\ journal = last.prev
  /\ Len(audit) = last.prev_audit /\ audit # <<>>

\* C17: when a journal write changed the journal and the operation was
\* interrupted before its audit entry was recorded, the next
\* verify_integrity() returns False, whatever the state before, the one
\* without any audit entry included.
C17_InterruptedWriteDetected ==
  [][(/\ last.op \in {"observe_interrupted", "add_message_interrupted"}
      /\ last'.op = "verify_integrity")
       => last'.ret = FALSE]_vars

(***************************************************************************)
(* memory/observer.py: an Observer on its own, over one ObservationLog     *)
(***************************************************************************)

\* Calls of compress in a run.
MaxCompress == 2

\* The journal an Observer may find: no file, or a block under a header the
\* parser matches.
ObserverJournals == { <<>>, s_header \o <<"\n", "k", "\n">> }

\* The message lists handed to compress: none, or one message.
ObserverMessages == { <<>>, <<[role |-> "user", content |-> <<"a", "b", "c", "d">>]>> }

\* input lists the calls made so far; output is what the last call returned.
InitObserver ==
  /\ Untouched
  /\ journal \in ObserverJournals
  /\ input = <<>>
  /\ output = <<>>
  /\ last = Done("init")

\* compress(messages) once it has returned c or raised.
CompressDone(messages, response, c) ==
  /\ journal' = c.raw
  /\ input' = Append(input, [messages |-> messages, response |-> response])
  /\ output' = c.entries
  /\ last' = [Done("compress") EXCEPT !.messages = messages, !.raised = c.raised,
                                      !.llm_calls = IF c.called THEN 1 ELSE 0,
                                      !.observer_response = response,
                                      !.observer_raised = c.raised,
                                      !.written = c.entries, !.lines = c.lines]
  /\ UNCHANGED <<config, procs, storage, run_files, run_states, audit, session, snapshot, edits>>

\* Observer.compress(messages), the LLM answering response if it is asked.
Compress(messages, response) ==
  /\ Len(input) < MaxCompress
  /\ CompressDone(messages, response, compress(journal, messages, response, Today))

NextObserver ==
  \E messages \in ObserverMessages, response \in ObserverResponses :
    Compress(messages, response)

SpecObserver == InitObserver /\ [][NextObserver]_vars

\* C18: compress called with an empty message list returns an empty list,
\* does not call the LLM and leaves the journal as it was.
C18_EmptyIsNoOp ==
  (last.op = "compress" /\ last.messages = <<>>) =>
    /\ output = <<>>
    /\ last.llm_calls = 0
    /\ ~last.raised
    /\ journal = last.prev

\* compress with no message, on a journal that holds something, while the LLM
\* would have answered with two entries.
C18_Witness ==
  /\ last.op = "compress" /\ last.messages = <<>>
  /\ journal # <<>>
  /\ ~last.observer_response.raises
  /\ LeadingMarker(last.observer_response.text) # None
  /\ output = <<>>

\* C19: for every LLM response, compress appends one journal entry per
\* non-blank response line that begins with a priority glyph, in the order of
\* the response, and discards every other line; the list returned is the
\* entries appended; afterwards entries() is the previous entries followed by
\* exactly the list returned.
C19_OneEntryPerGlyphLine ==
  (last.op = "compress" /\ last.messages # <<>> /\ ~last.raised) =>
    /\ Len(output) =
         Cardinality({ n \in 1..Len(SplitLines(last.observer_response.text)) :
                         LeadingMarker(Strip(SplitLines(last.observer_response.text)[n])) # None })
    /\ journal = AppendEntries(last.prev, output, 1, Len(output))
    /\ _parse(last.prev).ok
    /\ _parse(journal).ok
    /\ _parse(journal).entries = _parse(last.prev).entries \o output

\* C20: when the journal is not empty and the LLM's response parses to at
\* least one entry, reflect() returns True and afterwards entries() is exactly
\* the entries parsed from the response, in their order, none of the previous
\* entries remaining; run from a flush, one audit entry with source
\* "reflector" is recorded for it.
C20_ReflectOverwrites ==
  (/\ last.op = "add_message" /\ last.reflect_invoked
   /\ Strip(last.observer_raw) # <<>>
   /\ ~last.response.raises
   /\ _parse(last.response.text).ok
   /\ _parse(last.response.text).entries # <<>>) =>
    /\ last.reflect_ret
    /\ _parse(journal).ok
    /\ _parse(journal).entries = _parse(last.response.text).entries
    /\ Len(audit) = last.observer_audit + 1
    /\ audit[Len(audit)].source = "reflector"

(***************************************************************************)
(* security/audit.py: an AuditLog on its own                                *)
(***************************************************************************)

\* Entries an AuditLog may hold in a run.
MaxAuditEntries == 2

\* Contents handed to append and to verify.
AuditContents == { <<>>, <<"a">>, <<"b">> }

AuditSources == {"observer", "reflector", "manual"}

\* input is the content last handed to verify.
InitAudit ==
  /\ Untouched
  /\ journal = <<>>
  /\ input = <<>>
  /\ output = <<>>
  /\ last = Done("init")

\* AuditLog.append(source, previous_content, new_content)
AuditLogAppend(source, previous_content, new_content) ==
  /\ Len(audit) < MaxAuditEntries
  /\ audit' = AuditAppend(audit, source, previous_content, new_content)
  /\ last' = Done("append")
  /\ UNCHANGED <<config, procs, storage, run_files, run_states, journal, session, snapshot, edits, input, output>>

\* AuditLog.verify(current_content)
AuditLogVerify(current_content) ==
  /\ input' = current_content
  /\ last' = [Done("verify") EXCEPT !.ret = verify(audit, current_content)]
  /\ UNCHANGED <<config, procs, storage, run_files, run_states, journal, audit, session, snapshot, edits, output>>

NextAudit ==
  \/ \E source \in AuditSources, previous_content \in AuditContents,
         new_content \in AuditContents :
       AuditLogAppend(source, previous_content, new_content)
  \/ \E current_content \in AuditContents : AuditLogVerify(current_content)

SpecAudit == InitAudit /\ [][NextAudit]_vars

\* C21: verify(x) returns True exactly when the audit log has no entry or the
\* digest of x is the sha256 of the last entry; a content that matches only
\* an older entry is rejected.
C21_VerifyUsesLast ==
  last.op = "verify" =>
    (last.ret <=> (\/ Len(audit) = 0
                   \/ hash_content(input) = audit[Len(audit)].sha256))

\* verify of the content the first of two entries was written for: rejected.
C21_Witness ==
  /\ last.op = "verify"
  /\ Len(audit) = 2
  /\ audit[1].sha256 = hash_content(input)
  /\ audit[2].sha256 # hash_content(input)
  /\ ~last.ret

\* C22: the audit log is append-only: no operation of the ContextManager
\* removes or alters an audit entry, so the entries before an operation are a
\* prefix of the entries after it, and the new entries come in the order of
\* the journal writes they record: the last one carries the digest of the
\* journal as the operation leaves it, and when a flush adds two, the
\* Observer's comes first, with the digest of what the Observer left.
C22_AuditAppendOnly ==
  [][/\ Len(audit') >= Len(audit)
     /\ Len(audit') <= Len(audit) + 2
     /\ SubSeq(audit', 1, Len(audit)) = audit
     /\ Len(audit') > Len(audit) =>
          audit'[Len(audit')].sha256 = hash_content(journal')
     /\ Len(audit') = Len(audit) + 2 =>
          /\ audit'[Len(audit) + 1].source = "observer"
          /\ audit'[Len(audit) + 1].sha256 = hash_content(last'.observer_raw)
          /\ audit'[Len(audit) + 2].source = "reflector"]_vars

\* A flush that added the Observer's and the Reflector's entries after the
\* entry of an earlier observe.
C22_Witness ==
  /\ last.op = "add_message" /\ last.flushed
  /\ last.prev_audit >= 1
  /\ Len(audit) = last.prev_audit + 2
  /\ audit[1].source = "manual"
  /\ audit[2].source = "observer"
  /\ audit[3].source = "reflector"

\* C23: the journal changes only by append or by the Reflector's overwrite:
\* observe, and every flush in which the Reflector does not rewrite, leave the
\* entries the journal had in place and in order, so entries() before is a
\* prefix of entries() after, and the entries appended follow it in the order
\* of the calls.
C23_JournalAppendOnly ==
  [][(/\ \/ last'.op = "observe"
         \/ (last'.op = "add_message" /\ last'.flushed /\ ~last'.reflect_ret)
      /\ _parse(journal).ok) =>
       /\ _parse(journal').ok
       /\ _parse(journal').entries =
            _parse(journal).entries
              \o (IF last'.op = "observe" THEN <<last'.entry>> ELSE last'.written)]_vars

\* C24: every entry observe or the Observer writes to the journal has
\* event_date <= observed_on, whatever event date the caller supplies.
C24_EventNotAfterObserved ==
  /\ last.op = "observe" =>
       toordinal(last.entry.event_date) <= toordinal(last.entry.observed_on)
  /\ last.op = "add_message" =>
       \A n \in 1..Len(last.written) :
         toordinal(last.written[n].event_date) <= toordinal(last.written[n].observed_on)

(***************************************************************************)
(* memory/observation_log.py: relative_lag and render of one entry         *)
(***************************************************************************)

\* Event dates and values of today: around date.today(), across the end of a
\* year, across the end of February in a leap year and in a common year, a
\* year apart and a day ahead.
LagDates ==
  { Date(2026, 1, 2), Date(2026, 1, 1), Date(2025, 12, 31), Date(2026, 1, 3),
    Date(2024, 2, 28), Date(2024, 3, 1), Date(2023, 2, 28), Date(2023, 3, 1),
    Date(2025, 1, 2), Date(2025, 12, 23) }

\* input is the entry and the argument today (NoDate when left out).
InitLag ==
  /\ Untouched
  /\ journal = <<>>
  /\ input \in [e : { ObservationEntry(GlyphYellow, Today, d, <<"a">>, FALSE) : d \in LagDates },
                 today : LagDates \cup {NoDate}]
  /\ output = <<>>
  /\ last = Done("init")

\* e.relative_lag(today)
RelativeLag ==
  /\ output' = relative_lag(input.e, input.today, Today)
  /\ last' = Done("relative_lag")
  /\ UNCHANGED <<config, procs, storage, run_files, run_states, journal, audit, session, snapshot, edits, input>>

\* e.render(today)
Render ==
  /\ output' = render(input.e, input.today, Today)
  /\ last' = Done("render")
  /\ UNCHANGED <<config, procs, storage, run_files, run_states, journal, audit, session, snapshot, edits, input>>

NextLag == RelativeLag \/ Render

SpecLag == InitLag /\ [][NextLag]_vars

\* C27: relative_lag(today) is "today" exactly when event_date is today,
\* "1_day_ago" exactly when today is one day after event_date, and otherwise
\* "N_days_ago" with N the number of days from event_date to today; render
\* computes it anew for the today it is given, and the stored form has no
\* relative field.
C27_RelativeLag ==
  /\ last.op = "relative_lag" =>
       /\ output = s_today <=> input.e.event_date = TodayOr(input.today, Today)
       /\ output = s_1_day_ago <=>
            toordinal(TodayOr(input.today, Today)) - toordinal(input.e.event_date) = 1
       /\ (output # s_today /\ output # s_1_day_ago) =>
            output = IntStr(toordinal(TodayOr(input.today, Today))
                              - toordinal(input.e.event_date)) \o s_days_ago
  /\ last.op = "render" =>
       /\ SubSeq(output, 47, 56) = s_relative
       /\ SubSeq(output, 57, Len(output) - 2)
            = relative_lag(input.e, input.today, Today)
       /\ \A k \in 1..(Len(serialize(input.e)) - 9) :
            SubSeq(serialize(input.e), k, k + 9) # s_relative

\* The lag from 28 February to 1 March of a leap year: two days.
C27_Witness ==
  /\ last.op = "relative_lag"
  /\ input.e.event_date = Date(2024, 2, 28)
  /\ input.today = Date(2024, 3, 1)
  /\ output = <<"2">> \o s_days_ago

(***************************************************************************)
(* context_manager.py: the builders, on a ContextManager with the default  *)
(* thresholds                                                              *)
(***************************************************************************)

\* task_anchor as given to the constructor: none, blanks only, a word
\* between blanks.
TaskAnchors == { <<>>, <<" ", "\n">>, <<" ", "t", "\n">> }

\* The journal a ContextManager may find: no file, the entry an observe
\* wrote, one and two blocks under headers the parser matches, and a block
\* under a header with an impossible date.
BuildJournals ==
  { <<>>,
    LogAppend(<<>>, ObservationEntry(GlyphGreen, Today, Today, <<"x">>, FALSE)),
    s_header \o <<"\n", "k", "\n">>,
    s_header \o <<"\n", "k", "\n", "\n", "u00F0">> \o s_observed_on \o DateStr(Today)
      \o s_event_date \o DateStr(Today) \o s_ext \o <<"\n", "l", "\n">>,
    s_bad_date_header \o <<"\n", "m", "\n">> }

\* The argument today: left out, or tomorrow.
BuildDays == { NoDate, Date(2026, 1, 3) }

\* AgentCtxConfig's defaults: no session and no journal of the model reaches them.
observer_threshold == 30000

reflector_threshold == 40000

\* config holds the Anchor's intent next to the thresholds; the audit log is
\* empty or has the entry of the journal's last write.
InitBuild ==
  /\ config \in [observer_threshold : {observer_threshold},
                  reflector_threshold : {reflector_threshold},
                  _intent : { Anchor(a) : a \in TaskAnchors }]
  /\ journal \in BuildJournals
  /\ audit \in { <<>>, AuditAppend(<<>>, "manual", <<>>, journal) }
  /\ session = <<>>
  /\ snapshot = journal
  /\ edits = 0
  /\ input = NoDate
  /\ output = Built(<<>>)
  /\ procs = <<>>
  /\ storage = ExistingDir
  /\ run_files = <<>>
  /\ run_states = <<>>
  /\ last = Done("init")

\* ContextManager.build_prefix(today)
BuildPrefix(today) ==
  /\ input' = today
  /\ output' = build_prefix(config._intent, journal, today, Today)
  /\ last' = [Done("build_prefix") EXCEPT !.raised = ~output'.ok]
  /\ UNCHANGED <<config, procs, storage, run_files, run_states, journal, audit, session, snapshot, edits>>

\* A faulty build: the session is dropped once it is rendered.
BuildClearing(today) ==
  /\ input' = today
  /\ output' = build(config._intent, journal, session, today, Today)
  /\ last' = [Done("build") EXCEPT !.raised = ~output'.ok]
  /\ session' = <<>>
  /\ UNCHANGED <<config, procs, storage, run_files, run_states, journal, audit, snapshot, edits>>

\* ContextManager.build(today)
Build(today) ==
  /\ input' = today
  /\ output' = build(config._intent, journal, session, today, Today)
  /\ last' = [Done("build") EXCEPT !.raised = ~output'.ok]
  /\ UNCHANGED <<config, procs, storage, run_files, run_states, journal, audit, session, snapshot, edits>>

NextBuild ==
  \/ \E role \in {"user", "assistant"}, content \in MessageContents : AddMessage(role, content)
  \/ \E today \in BuildDays : BuildPrefix(today)
  \/ \E today \in BuildDays : Build(today)
  \/ VerifyIntegrity

SpecBuild == InitBuild /\ [][NextBuild]_vars

\* C25: build_prefix, build and verify_integrity only read: from any state,
\* a call of one of them leaves the journal, the audit log and the session
\* buffer as they are and calls no LLM.
C25_ReadOnly ==
  [][last'.op \in {"build_prefix", "build", "verify_integrity"} =>
       /\ journal' = journal
       /\ audit' = audit
       /\ session' = session
       /\ last'.llm_calls = 0]_vars

\* build on a ContextManager that has an anchor, a journal with entries, an
\* audit entry and two messages in the session.
C25_Witness ==
  /\ last.op = "build"
  /\ config._intent # <<>>
  /\ _parse(journal).ok /\ _parse(journal).entries # <<>>
  /\ audit # <<>>
  /\ Len(session) = 2
  /\ output.ok /\ output.text # <<>>

C29_ReflectAtThreshold ==
  (last.op = "add_message" /\ last.flushed /\ ~last.observer_raised) =>
    /\ session = <<>>
    /\ last.reflect_invoked <=>
         (Len(last.observer_raw) \div 4 >= config.reflector_threshold)
    /\ last.reflect_ret => last.reflect_invoked
    /\ last.reflect_ret =>
         /\ Len(audit) = last.observer_audit + 1
         /\ audit[Len(audit)].source = "reflector"
         /\ last.observer_audit = last.prev_audit + 1 =>
              audit[last.observer_audit].source = "observer"
    /\ ~last.reflect_ret => Len(audit) = last.observer_audit
    /\ \A n \in (last.prev_audit + 1)..Len(audit) :
         audit[n].source = "reflector" => (last.reflect_ret /\ n = Len(audit))

\* A flush whose Observer wrote nothing and whose Reflector rewrote the
\* journal: the only audit entry of the flush is the Reflector's.
C29_Witness ==
  /\ last.op = "add_message" /\ last.flushed /\ ~last.observer_raised
  /\ last.written = <<>>
  /\ last.observer_audit = last.prev_audit
  /\ last.reflect_invoked /\ last.reflect_ret
  /\ Len(audit) = last.prev_audit + 1
  /\ audit[Len(audit)].source = "reflector"

\* C30: the Reflector's rewrite is not checked: every response that parses
\* to at least one entry is accepted as the whole journal, whatever it leaves
\* out and whatever part of it did not parse, and the audit entry of the
\* rewrite makes verify_integrity() return True for the result.
C30_RewriteUnchecked ==
  (/\ last.op = "add_message" /\ last.reflect_called
   /\ ~last.response.raises
   /\ _parse(last.response.text).ok
   /\ _parse(last.response.text).entries # <<>>) =>
    /\ last.reflect_ret
    /\ journal = LogOverwrite(_parse(last.response.text).entries)
    /\ verify(audit, journal)

\* A rewrite from a response of two blocks of which one parsed: the journal
\* had a block of priority CRITICAL before it and has none after, and
\* verify_integrity() would return True.
C30_Witness ==
  /\ last.op = "add_message" /\ last.reflect_ret
  /\ Len(ReSplit(ReBlankLines, Strip(last.response.text))) = 2
  /\ Len(_parse(last.response.text).entries) = 1
  /\ \E n \in 1..Len(ReSplit(ReBlankLines, Strip(last.observer_raw))) :
       StartsWith(ReSplit(ReBlankLines, Strip(last.observer_raw))[n], <<GlyphRed>>)
  /\ \A n \in 1..Len(ReSplit(ReBlankLines, Strip(journal))) :
       ~StartsWith(ReSplit(ReBlankLines, Strip(journal))[n], <<GlyphRed>>)
  /\ verify(audit, journal)

(***************************************************************************)
(* context_manager.py: ContextManager instances that share a storage_path, *)
(* each calling observe, one file read or write at a time                  *)
(***************************************************************************)

Instances == {1, 2}

\* observe calls of one instance in a run.
MaxCalls == 1

\* The texts observe is called with.
SharedTexts == { <<"a">>, <<GlyphRed, " ", "b">> }

\* An instance outside observe.
Idle(calls) ==
  [pc |-> "idle", calls |-> calls, entry |-> NoEntry,
   prev |-> <<>>, raw |-> <<>>, new |-> <<>>]

InitShared ==
  /\ config = <<>>
  /\ journal = <<>>
  /\ audit = <<>>
  /\ session = <<>>
  /\ snapshot = <<>>
  /\ edits = 0
  /\ input = <<>>
  /\ output = <<>>
  /\ procs = [p \in Instances |-> Idle(0)]
  /\ storage = ExistingDir
  /\ run_files = <<>>
  /\ run_states = <<>>
  /\ last = Done("init")

\* observe up to `prev = self._observation_log.read_raw()`
ReadPrev(p, text) ==
  /\ procs[p].pc = "idle"
  /\ procs[p].calls < MaxCalls
  /\ procs' = [procs EXCEPT ![p] = [@ EXCEPT !.pc = "append_read",
                                             !.calls = @ + 1,
                                             !.entry = ObserveEntry(text, EventDate(<<>>)).entry,
                                             !.prev = journal]]
  /\ last' = Done("observe_read_prev")
  /\ UNCHANGED <<config, storage, run_files, run_states, journal, audit, session, snapshot, edits, input, output>>

\* ObservationLog.append: `raw = self.read_raw()`
AppendRead(p) ==
  /\ procs[p].pc = "append_read"
  /\ procs' = [procs EXCEPT ![p] = [@ EXCEPT !.pc = "append_write", !.raw = journal]]
  /\ last' = Done("observe_append_read")
  /\ UNCHANGED <<config, storage, run_files, run_states, journal, audit, session, snapshot, edits, input, output>>

\* ObservationLog.append: the write, at the end of the file as it is by then
AppendWrite(p) ==
  /\ procs[p].pc = "append_write"
  /\ journal' = journal \o AppendedText(procs[p].raw, procs[p].entry)
  /\ procs' = [procs EXCEPT ![p] = [@ EXCEPT !.pc = "read_new"]]
  /\ last' = Done("observe_append_write")
  /\ UNCHANGED <<config, storage, run_files, run_states, audit, session, snapshot, edits, input, output>>

\* A faulty observe: the content handed to the audit log as new is the one
\* read before the write.
ReadNewStale(p) ==
  /\ procs[p].pc = "read_new"
  /\ procs' = [procs EXCEPT ![p] = [@ EXCEPT !.pc = "audit", !.new = procs[p].raw]]
  /\ last' = Done("observe_read_new")
  /\ UNCHANGED <<config, storage, run_files, run_states, journal, audit, session, snapshot, edits, input, output>>

\* observe: the read_raw() in the arguments of self._audit_log.append
ReadNew(p) ==
  /\ procs[p].pc = "read_new"
  /\ procs' = [procs EXCEPT ![p] = [@ EXCEPT !.pc = "audit", !.new = journal]]
  /\ last' = Done("observe_read_new")
  /\ UNCHANGED <<config, storage, run_files, run_states, journal, audit, session, snapshot, edits, input, output>>

\* observe: AuditLog.append("manual", prev, new), and the return
AuditWrite(p) ==
  /\ procs[p].pc = "audit"
  /\ audit' = AuditAppend(audit, "manual", procs[p].prev, procs[p].new)
  /\ snapshot' = procs[p].new
  /\ procs' = [procs EXCEPT ![p] = Idle(procs[p].calls)]
  /\ last' = [Done("observe") EXCEPT !.entry = procs[p].entry]
  /\ UNCHANGED <<config, storage, run_files, run_states, journal, session, edits, input, output>>

NextShared ==
  \/ \E p \in Instances, text \in SharedTexts : ReadPrev(p, text)
  \/ \E p \in Instances : AppendRead(p)
  \/ \E p \in Instances : AppendWrite(p)
  \/ \E p \in Instances : ReadNew(p)
  \/ \E p \in Instances : AuditWrite(p)

SpecShared == InitShared /\ [][NextShared]_vars

\* C28: the files are not locked.  While a single instance has used the
\* directory, the journal matches the last audit entry whenever no observe
\* is under way; with the observe calls of two instances interleaved, and no
\* out-of-band edit, a state where it does not is reachable (the witness).
C28_SingleInstanceKeepsIntegrity ==
  (/\ \A p \in Instances : procs[p].pc = "idle"
   /\ Cardinality({ p \in Instances : procs[p].calls > 0 }) <= 1) =>
    verify(audit, journal)

\* Two instances have each finished an observe, nobody edited the file, and
\* the last audit entry is not of the journal's content.
C28_Witness ==
  /\ \A p \in Instances : procs[p].pc = "idle" /\ procs[p].calls = 1
  /\ edits = 0
  /\ Len(audit) = 2
  /\ last_hash(audit) # hash_content(journal)
  /\ ~verify(audit, journal)

\* C31: an audited write re-establishes the hash relation whatever the state
\* before it: when observations.md had been edited out of band, so that
\* verify_integrity() was False, an observe or a flush that adds an audit
\* entry leaves the digest of the last audit entry equal to the digest of the
\* file, which is the edited content plus the new write for observe, and
\* verify_integrity() is True again.
C31_WriteReestablishes ==
  (/\ last.op \in {"observe", "add_message"}
   /\ Len(audit) > last.prev_audit
   /\ ~verify(SubSeq(audit, 1, last.prev_audit), last.prev))
  => /\ verify(audit, journal)
     /\ last_hash(audit) = hash_content(journal)
     /\ last.op = "observe" => journal = LogAppend(last.prev, last.entry)

\* observe right after an out-of-band overwrite of a journal that had an
\* audit entry.
C31_Witness ==
  /\ last.op = "observe"
  /\ edits > 0
  /\ last.prev_audit > 0
  /\ last.prev \in TamperContents
  /\ ~verify(SubSeq(audit, 1, last.prev_audit), last.prev)
  /\ Len(audit) = last.prev_audit + 1
  /\ verify(audit, journal)


formatted(messages) ==
  Join(<<"\n">>, [n \in 1..Len(messages) |-> FormatMessage(messages[n])])

\* Messages of one token each, told apart by role and content.
RetryContents == { <<"a", "b", "c", "d">>, <<"e", "f", "g", "h">> }

NextRetry ==
  \E role \in {"user", "assistant"} : \E content \in RetryContents :
    AddMessage(role, content)

SpecRetry == Init /\ [][NextRetry]_vars

\* C33: after a flush in which the Observer's LLM call raised, the buffer is
\* retained whole; an add_message on a retained buffer (one that meets the
\* threshold) appends its message at the end and flushes again with the
\* retained messages, in the order they were added, followed by the new one
\* as the transcript; the buffer stays that list while the call raises and is
\* empty once the call returns. A buffer meets the threshold between
\* operations only after such a failure.
C33_RetainedBufferRetried ==
  /\ (last.op = "add_message"
       /\ _session_token_count(last.prev_session) >= config.observer_threshold)
      => /\ last.flushed
         /\ Len(last.messages) = Len(last.prev_session) + 1
         /\ SubSeq(last.messages, 1, Len(last.prev_session)) = last.prev_session
         /\ formatted(last.messages)
              = formatted(last.prev_session) \o <<"\n">>
                  \o FormatMessage(last.messages[Len(last.messages)])
         /\ session = IF last.observer_raised THEN last.messages ELSE <<>>
  /\ _session_token_count(session) >= config.observer_threshold
      => last.op = "add_message" /\ last.observer_raised /\ session = last.messages

\* The second flush of a buffer of two different messages retained by a
\* failed call: the LLM answers, the three messages were its transcript in
\* order, and the buffer is empty.
C33_Witness ==
  /\ last.op = "add_message" /\ last.flushed
  /\ _session_token_count(last.prev_session) >= config.observer_threshold
  /\ Len(last.prev_session) = 2
  /\ last.prev_session[1] # last.prev_session[2]
  /\ last.messages[3] # last.messages[2]
  /\ SubSeq(last.messages, 1, 2) = last.prev_session
  /\ ~last.observer_raised
  /\ session = <<>>


(***************************************************************************)
(* add_message under observer thresholds 0, 1 and 2, with messages shorter *)
(* and longer than one token (SpecThreshold)                               *)
(***************************************************************************)

ThresholdChoices == {0, 1, 2}

ThresholdContents == { <<"a", "b">>, <<"a", "b", "c", "d", "e">> }

InitThreshold ==
  /\ config \in [observer_threshold : ThresholdChoices,
                 reflector_threshold : {reflector_threshold}]
  /\ journal = <<>>
  /\ audit = <<>>
  /\ session = <<>>
  /\ snapshot = <<>>
  /\ edits = 0
  /\ last = [Done("init") EXCEPT !.prev = <<>>, !.prev_audit = 0,
                                 !.prev_session = <<>>,
                                 !.observer_raw = <<>>, !.observer_audit = 0]
  /\ input = <<>>
  /\ output = <<>>
  /\ procs = <<>>
  /\ storage = ExistingDir
  /\ run_files = <<>>
  /\ run_states = <<>>

NextThreshold == \E content \in ThresholdContents : AddMessage("user", content)

SpecThreshold == InitThreshold /\ [][NextThreshold]_vars

\* C34: with observer_threshold >= 1, between public operations the
\* session's approximate token count, the sum of the lengths of the contents
\* divided by 4 and rounded down, is below observer_threshold unless the
\* Observer's LLM call of the last add_message raised.
C34_SessionBelowThreshold ==
  (config.observer_threshold >= 1 /\ ~last.observer_raised)
  => SumContentLen(session) \div 4 < config.observer_threshold

\* An add_message whose message took a buffer of short messages to the
\* threshold: the Observer's call returned and the buffer is empty.
C34_Witness ==
  /\ config.observer_threshold >= 1
  /\ last.op = "add_message" /\ last.flushed /\ ~last.observer_raised
  /\ Len(last.messages) >= 2
  /\ \A n \in 1..Len(last.messages) : Len(last.messages[n].content) < 4
  /\ SumContentLen(last.prev_session) \div 4 < config.observer_threshold
  /\ SumContentLen(last.messages) \div 4 = config.observer_threshold
  /\ session = <<>>


RECURSIVE SumCharDelta(_)
\* The sum of char_delta over the entries of audit.jsonl.
SumCharDelta(entries) ==
  IF entries = <<>> THEN 0
  ELSE Head(entries).char_delta + SumCharDelta(Tail(entries))

\* C35: from a fresh storage_path, with every write of the journal made by
\* this ContextManager and no out-of-band edit, the char_delta of all audit
\* entries add up to the number of characters of observations.md.
C35_CharDeltaSum ==
  edits = 0 => SumCharDelta(audit) = Len(journal)

\* A flush on the untouched journal after an observe: the Observer added
\* entries and the Reflector's rewrite made the journal shorter, its audit
\* entry carrying a negative char_delta.
C35_Witness ==
  /\ edits = 0
  /\ last.op = "add_message" /\ last.flushed
  /\ last.written # <<>>
  /\ last.reflect_ret
  /\ Len(audit) >= 2
  /\ last_entry(audit).source = "reflector"
  /\ last_entry(audit).char_delta < 0
  /\ audit[Len(audit) - 1].char_delta > 0
  /\ journal # <<>>
  /\ SumCharDelta(audit) = Len(journal)


\* C36: observe calls no LLM and runs neither the Observer nor the Reflector,
\* also when the journal it leaves is at or above reflector_threshold, and it
\* leaves the session as it was; it appends one entry to the journal and one
\* "manual" entry to the audit log.
C36_ObserveOnlyAppends ==
  last.op = "observe" =>
    /\ last.llm_calls = 0
    /\ ~last.flushed
    /\ ~last.reflect_invoked /\ ~last.reflect_called /\ ~last.reflect_ret
    /\ session = last.prev_session
    /\ journal = LogAppend(last.prev, last.entry)
    /\ Len(audit) = last.prev_audit + 1
    /\ last_entry(audit).source = "manual"
    /\ last_hash(audit) = hash_content(journal)

\* observe with a message in the session, on a journal that parses to
\* entries and is, before and after, at or above a reflector_threshold of 20
\* tokens: a flush in this state would ask the Reflector.
C36_Witness ==
  /\ last.op = "observe"
  /\ config.reflector_threshold > 0
  /\ token_count_approx(last.prev) >= config.reflector_threshold
  /\ token_count_approx(journal) >= config.reflector_threshold
  /\ _parse(journal).ok /\ _parse(journal).entries # <<>>
  /\ session # <<>>
  /\ session = last.prev_session
  /\ Len(audit) = last.prev_audit + 1


(***************************************************************************)
(* build_prefix between the add_message calls of a session, the Observer   *)
(* firing at the second message (SpecPrefix)                               *)
(***************************************************************************)

\* What date.today() may be when build_prefix is called.
PrefixClock == { Today, Date(2026, 1, 5) }

InitPrefix ==
  /\ config \in [observer_threshold : ObserverThresholds,
                  reflector_threshold : {reflector_threshold},
                  _intent : { Anchor(a) : a \in TaskAnchors }]
  /\ journal \in BuildJournals
  /\ audit \in { <<>>, AuditAppend(<<>>, "manual", <<>>, journal) }
  /\ session = <<>>
  /\ snapshot = journal
  /\ edits = 0
  /\ input = NoDate
  /\ output = Built(<<>>)
  /\ procs = <<>>
  /\ storage = ExistingDir
  /\ run_files = <<>>
  /\ run_states = <<>>
  /\ last = Done("init")

NextPrefix ==
  \/ \E content \in MessageContents : AddMessage("user", content)
  \/ \E today \in BuildDays : BuildPrefix(today)

SpecPrefix == InitPrefix /\ [][NextPrefix]_vars

\* C37: for a fixed today the prefix is stable across a session: when the
\* string build_prefix(today) last returned is what it returns in this state,
\* then an add_message that triggers no flush, or another build_prefix(today),
\* leaves it so: the call returns the same string, before and after, whatever
\* the session holds and whatever day the clock shows.
C37_PrefixStable ==
  [][(/\ input # NoDate
      /\ output = build_prefix(config._intent, journal, input, Today)
      /\ \/ last'.op = "add_message" /\ ~last'.flushed
         \/ last'.op = "build_prefix" /\ input' = input)
     => /\ output' = output
        /\ \A now \in PrefixClock :
             build_prefix(config'._intent, journal', input', now) = output]_vars

\* build_prefix(today) called with a message in the session, on a journal
\* with entries and an anchor: the string with both blocks that the same call
\* returns with the session empty.
C37_Witness ==
  /\ last.op = "build_prefix"
  /\ input # NoDate
  /\ session # <<>>
  /\ config._intent # <<>>
  /\ _parse(journal).ok /\ _parse(journal).entries # <<>>
  /\ output.ok /\ output.text # <<>>
  /\ output = build_prefix(config._intent, journal, input, Today)
  /\ output.text = s_task_anchor \o config._intent \o s_blank_line
                     \o builder_build_prefix(_parse(journal).entries, input, Today)


\* len(text.encode("utf-8")): one byte for each character and the further
\* bytes of those that take 2, 3 or 4.
Utf8Bytes(text) ==
  Len(text)
    + Cardinality({n \in 1..Len(text) : Utf8Len(text[n]) = 2})
    + 2 * Cardinality({n \in 1..Len(text) : Utf8Len(text[n]) = 3})
    + 3 * Cardinality({n \in 1..Len(text) : Utf8Len(text[n]) = 4})

\* C38: token_count_approx() is the number of bytes of the journal in UTF-8
\* divided by 4 and rounded down, whatever characters the journal holds, and
\* a flush asks the Reflector exactly when this number reaches
\* reflector_threshold.
C38_TokenCountOfBytes ==
  /\ token_count_approx(journal) = Utf8Bytes(journal) \div 4
  /\ (last.op = "add_message" /\ last.flushed /\ ~last.observer_raised)
       => (last.reflect_invoked
             <=> Utf8Bytes(last.observer_raw) \div 4 >= config.reflector_threshold)


(***************************************************************************)
(* The first writes under a storage_path that may not exist yet (SpecDir)  *)
(***************************************************************************)

\* Writes of each file in a run.
MaxDirWrites == 2

\* The umask of the process, by its octal digits: 0o022, 0o002, 0o077.
Umasks == { <<0, 2, 2>>, <<0, 0, 2>>, <<0, 7, 7>> }

DirEntries ==
  { ObservationEntry(GlyphGreen, Today, Today, <<"a">>, FALSE),
    ObservationEntry(GlyphRed, Today, Today, <<"b">>, FALSE) }

\* No directory, or one the caller made, under some umask or wide open;
\* input holds the umask of the process.
InitDir ==
  /\ config \in [observer_threshold : {observer_threshold},
                  reflector_threshold : {reflector_threshold}]
  /\ storage \in {NoDir} \cup { Dir(Mkdir(u), "caller") : u \in Umasks }
                   \cup { Dir(Octal(7, 7, 7), "caller") }
  /\ input \in Umasks
  /\ journal = <<>>
  /\ audit = <<>>
  /\ session = <<>>
  /\ snapshot = <<>>
  /\ edits = 0
  /\ output = <<>>
  /\ procs = <<>>
  /\ run_files = <<>>
  /\ run_states = <<>>
  /\ last = Done("init")

\* ObservationLog.append(entry), _ensure_file included.
DirLogAppend(entry) ==
  /\ Len(output) < MaxDirWrites
  /\ storage' = LogEnsureDir(storage, input)
  /\ journal' = LogAppend(journal, entry)
  /\ output' = Append(output, entry)
  /\ last' = [Done("append") EXCEPT !.entry = entry]
  /\ UNCHANGED <<config, procs, run_files, run_states, audit, session, snapshot, edits, input>>

\* AuditLog.append(source, previous_content, new_content), _ensure_file
\* included.
DirAuditAppend(source, previous_content, new_content) ==
  /\ Len(audit) < MaxDirWrites
  /\ storage' = AuditEnsureDir(storage, input)
  /\ audit' = AuditAppend(audit, source, previous_content, new_content)
  /\ snapshot' = new_content
  /\ last' = Done("audit_append")
  /\ UNCHANGED <<config, procs, run_files, run_states, journal, session, edits, input, output>>

\* ContextManager.observe(text): the journal's append, then the audit log's.
DirObserve(entry) ==
  /\ Len(output) < MaxDirWrites
  /\ Len(audit) < MaxDirWrites
  /\ storage' = AuditEnsureDir(LogEnsureDir(storage, input), input)
  /\ journal' = LogAppend(journal, entry)
  /\ audit' = AuditAppend(audit, "manual", journal, journal')
  /\ snapshot' = journal'
  /\ output' = Append(output, entry)
  /\ last' = [Done("observe") EXCEPT !.entry = entry]
  /\ UNCHANGED <<config, procs, run_files, run_states, session, edits, input>>

NextDir ==
  \/ \E entry \in DirEntries : DirLogAppend(entry)
  \/ \E source \in AuditSources : DirAuditAppend(source, snapshot, journal)
  \/ \E entry \in DirEntries : DirObserve(entry)

SpecDir == InitDir /\ [][NextDir]_vars

\* C39: an operation that finds no storage directory and makes it leaves it
\* with mode 0o700, whichever of the journal and the audit log is written
\* first; a directory that exists keeps its mode through every operation.
C39_DirOwnerOnly ==
  [][/\ (~storage.exists /\ storage'.exists) => storage'.mode = Octal(7, 0, 0)
     /\ storage.exists => storage' = storage]_vars


(***************************************************************************)
(* session/run_state.py: RunState objects of two runs on one storage_path  *)
(* (SpecRun)                                                               *)
(***************************************************************************)

\* Calls of complete, fail and mark_done in a run of the model.
MaxRunCalls == 3

\* A Python value: its type and what it holds, spelled out.
PyValue(type, items) == [type |-> type, items |-> items]

PyNone == PyValue("NoneType", <<>>)

\* A JSON value: null, number, string or array.
JsonValue(json, items) == [json |-> json, items |-> items]

\* Types json.dumps encodes; any other raises TypeError.
JsonSerializable(v) == v.type \in {"NoneType", "int", "str", "list", "tuple"}

\* json.dumps on a value it encodes: a tuple is written as an array.
json_dumps(v) ==
  CASE v.type = "NoneType" -> JsonValue("null", v.items)
    [] v.type = "int" -> JsonValue("number", v.items)
    [] v.type = "str" -> JsonValue("string", v.items)
    [] OTHER -> JsonValue("array", v.items)

\* json.loads: an array is read as a list.
json_loads(j) ==
  CASE j.json = "null" -> PyValue("NoneType", j.items)
    [] j.json = "number" -> PyValue("int", j.items)
    [] j.json = "string" -> PyValue("str", j.items)
    [] OTHER -> PyValue("list", j.items)

\* An item of RunState._steps: the key and its StepRecord(done, result).
StepRecord(step, done, result) == [step |-> step, done |-> done, result |-> result]

\* A RunState object; calls counts the calls made on the run.
RunState(run_id, _status, _steps, calls) ==
  [run_id |-> run_id, _status |-> _status, _steps |-> _steps, calls |-> calls]

\* RunState._path, below storage_path.
_path(run_id) == <<run_id, ".json">>

\* A <run_id>.json file as json.loads reads it, and no file.
RunFile(run_id, status, steps) ==
  [exists |-> TRUE, run_id |-> run_id, status |-> status, steps |-> steps]

NoFile == [exists |-> FALSE, run_id |-> "", status |-> "", steps |-> <<>>]

\* RunState.__init__ with _load_if_exists, on the files of storage_path.
_load_if_exists(run_id, files, calls) ==
  IF ~files[_path(run_id)].exists
    THEN RunState(run_id, "in_progress", <<>>, calls)
    ELSE RunState(run_id, files[_path(run_id)].status,
                  [n \in 1..Len(files[_path(run_id)].steps) |->
                     StepRecord(files[_path(run_id)].steps[n].step,
                                files[_path(run_id)].steps[n].done,
                                json_loads(files[_path(run_id)].steps[n].result))],
                  calls)

\* self._steps[step] = StepRecord(done, result): a key the dict has keeps its
\* place, a new key goes last.
SetStep(steps, step, done, result) ==
  IF \E n \in 1..Len(steps) : steps[n].step = step
    THEN [n \in 1..Len(steps) |->
            IF steps[n].step = step THEN StepRecord(step, done, result) ELSE steps[n]]
    ELSE Append(steps, StepRecord(step, done, result))

\* RunState.completed_steps()
completed_steps(st) ==
  [n \in 1..Cardinality({k \in 1..Len(st._steps) : st._steps[k].done}) |->
     st._steps[CHOOSE k \in 1..Len(st._steps) :
                 /\ st._steps[k].done
                 /\ Cardinality({i \in 1..k : st._steps[i].done}) = n].step]

\* RunState.is_complete(step)
is_complete(st, step) ==
  \E n \in 1..Len(st._steps) : st._steps[n].step = step /\ st._steps[n].done

\* RunState.get_result(step)
get_result(st, step) ==
  IF \E n \in 1..Len(st._steps) : st._steps[n].step = step
    THEN st._steps[CHOOSE n \in 1..Len(st._steps) : st._steps[n].step = step].result
    ELSE PyNone

\* json.dumps(self.to_dict()) raises TypeError on a result it cannot encode.
DumpsRaises(st) == \E n \in 1..Len(st._steps) : ~JsonSerializable(st._steps[n].result)

\* RunState.to_dict() as json.dumps writes it.
to_dict(st) ==
  RunFile(st.run_id, st._status,
          [n \in 1..Len(st._steps) |->
             StepRecord(st._steps[n].step, st._steps[n].done,
                        json_dumps(st._steps[n].result))])

\* RunState.save(): the files afterwards; nothing is written when json.dumps
\* raises.
save(st, files) ==
  IF DumpsRaises(st) THEN files ELSE [files EXCEPT ![_path(st.run_id)] = to_dict(st)]

\* self.storage_path.mkdir(parents=True, exist_ok=True)
RunEnsureDir(dir, umask) ==
  IF ~dir.exists THEN Dir(Mkdir(umask), "RunState") ELSE dir

RunIds == {"run-001", "run-002"}

StepNames == {"parse", "research"}

\* Results a step may carry: None, 42, "done", (1, 2) and a date.
StepResults ==
  { PyNone, PyValue("int", <<"42">>), PyValue("str", <<"done">>),
    PyValue("tuple", <<"1", "2">>), PyValue("date", <<"2026-01-02">>) }

\* Two RunState objects made on a storage_path that does not exist yet; input
\* holds the umask of the process.
InitRun ==
  /\ config \in [observer_threshold : {observer_threshold},
                  reflector_threshold : {reflector_threshold}]
  /\ storage = NoDir
  /\ input = <<0, 2, 2>>
  /\ run_files = [f \in { _path(r) : r \in RunIds } |-> NoFile]
  /\ run_states = [r \in RunIds |-> _load_if_exists(r, run_files, 0)]
  /\ journal = <<>>
  /\ audit = <<>>
  /\ session = <<>>
  /\ snapshot = <<>>
  /\ edits = 0
  /\ output = <<>>
  /\ procs = <<>>
  /\ last = [op |-> "init", run_id |-> "", step |-> "", raised |-> FALSE]

\* The calls made on all runs so far.
RunCalls == run_states["run-001"].calls + run_states["run-002"].calls

\* A call that has left the object as st, from self.save() on.
Saved(op, step, st) ==
  /\ run_states' = [run_states EXCEPT ![st.run_id] = [st EXCEPT !.calls = @ + 1]]
  /\ storage' = RunEnsureDir(storage, input)
  /\ run_files' = save(st, run_files)
  /\ last' = [op |-> op, run_id |-> st.run_id, step |-> step, raised |-> DumpsRaises(st)]
  /\ UNCHANGED <<config, procs, journal, audit, session, snapshot, edits, input, output>>

\* RunState.complete(step, result) on the object of run r
complete(r, step, result) ==
  /\ RunCalls < MaxRunCalls
  /\ Saved("complete", step,
           [run_states[r] EXCEPT !._steps = SetStep(@, step, TRUE, result)])

\* RunState.fail(step, result) on the object of run r
fail(r, step, result) ==
  /\ RunCalls < MaxRunCalls
  /\ Saved("fail", step,
           [run_states[r] EXCEPT !._steps = SetStep(@, step, FALSE, result)])

\* RunState.mark_done() on the object of run r
mark_done(r) ==
  /\ RunCalls < MaxRunCalls
  /\ Saved("mark_done", "", [run_states[r] EXCEPT !._status = "done"])

\* RunState(run_id, storage_path): a new object takes the place of the run's.
Resume(r) ==
  /\ last.op # "resume"
  /\ run_states' = [run_states EXCEPT ![r] = _load_if_exists(r, run_files, @.calls)]
  /\ last' = [op |-> "resume", run_id |-> r, step |-> "", raised |-> FALSE]
  /\ UNCHANGED <<config, procs, storage, run_files, journal, audit, session, snapshot,
                 edits, input, output>>

NextRun ==
  \/ \E r \in RunIds, step \in StepNames, result \in StepResults : complete(r, step, result)
  \/ \E r \in RunIds, step \in StepNames, result \in {PyNone} : fail(r, step, result)
  \/ \E r \in RunIds : mark_done(r)
  \/ \E r \in RunIds : Resume(r)

SpecRun == InitRun /\ [][NextRun]_vars

\* What a caller can see of two RunState objects is the same: the status, the
\* completed steps, and the result of every step.
SameRun(a, b) ==
  /\ a._status = b._status
  /\ completed_steps(a) = completed_steps(b)
  /\ \A step \in StepNames : get_result(a, step) = get_result(b, step)

\* C40: after every complete, fail and mark_done on a RunState, a RunState
\* made anew with the same run_id and storage_path has the same status, the
\* same completed steps and the same result for every step; a step is
\* completed exactly when the last call for it was complete; and a call on
\* one run_id leaves the object and the file of the other as they were.
C40_ResumeRecovers ==
  [][/\ \A r \in RunIds :
          SameRun(_load_if_exists(r, run_files', 0), run_states'[r])
     /\ last'.op = "complete" => is_complete(run_states'[last'.run_id], last'.step)
     /\ last'.op = "fail" => ~is_complete(run_states'[last'.run_id], last'.step)
     /\ \A r \in RunIds \ {last'.run_id} :
          /\ run_states'[r] = run_states[r]
          /\ run_files'[_path(r)] = run_files[_path(r)]]_vars


====
